---- MODULE Spec2Model ----
(***************************************************************************)
(* Site-structure builder and key-page selector of dio-analyst             *)
(* (src/src/utils/tree.py) and the importer pipeline that runs them        *)
(* (src/src/agents/importer_agent.py).                                     *)
(*                                                                         *)
(* Representation.                                                         *)
(*  - A Python str is a TLA+ string; Len, SubSeq and \o act on its         *)
(*    characters.  The strings of the model are ASCII: letters, digits     *)
(*    and the marks - . _ ~ / : ? # ; = & + , and space-free.              *)
(*  - Optional[T] is a sequence: << >> is None, <<v>> is the value v.      *)
(*  - A datetime is [days, secs, us, aware]: the day number counted from   *)
(*    1970-01-01, the second of the day and the microsecond of the second. *)
(*    An aware datetime is kept as its UTC instant, a naive one as its     *)
(*    wall-clock reading; Python compares, orders and hashes datetimes by  *)
(*    exactly these values.                                                *)
(*  - A float priority p is the integer 100 * p.  The sort key             *)
(*    (-priority, -timestamp, depth * 0.01) is kept as the tuple           *)
(*    <<-100 * priority, -days, -secs, -us, depth>>, which has the same    *)
(*    order.  The timestamp is the float Python computes, written as a     *)
(*    datetime: where a float holds less than the microseconds, us counts  *)
(*    the binary fractions of the second that it holds.                    *)
(*  - The local time zone is [before, transitions]: its offset from UTC    *)
(*    in seconds before the first transition, and the transitions          *)
(*    <<days, secs, utcoffset>> in the order of their instants.            *)
(*  - A TreeNode is a record whose children field is a sequence of         *)
(*    TreeNode records.                                                    *)
(*  - An exception that leaves a function is the record                    *)
(*    [raised |-> its name].                                               *)
(***************************************************************************)
EXTENDS Integers, Sequences, FiniteSets, TLC

\* Number of sitemap pages inserted into one tree.
MaxPages == 3
\* Largest max_result passed to extract_key_pages.
MaxResultArg == 4

None == << >>
Some(v) == <<v>>

-----------------------------------------------------------------------------
(* str operations *)

\* s[i - 1], the i-th character
Char(s, i) == SubSeq(s, i, i)

\* s[i - 1:]
From(s, i) == SubSeq(s, i, Len(s))

\* str.find(t, i - 1) + 1: the first position from i on at which t occurs,
\* 0 when there is none
RECURSIVE FindFrom(_, _, _)
FindFrom(s, t, i) ==
    IF i + Len(t) - 1 > Len(s) THEN 0
    ELSE IF SubSeq(s, i, i + Len(t) - 1) = t THEN i
    ELSE FindFrom(s, t, i + 1)

Find(s, t) == FindFrom(s, t, 1)

\* str.rfind(t) + 1 is RFindFrom(s, t, Len(s) - Len(t) + 1)
RECURSIVE RFindFrom(_, _, _)
RFindFrom(s, t, i) ==
    IF i < 1 THEN 0
    ELSE IF SubSeq(s, i, i + Len(t) - 1) = t THEN i
    ELSE RFindFrom(s, t, i - 1)

\* t in s
Contains(s, t) == Find(s, t) # 0

\* str.startswith, str.endswith
StartsWith(s, prefix) == Len(prefix) <= Len(s) /\ SubSeq(s, 1, Len(prefix)) = prefix

EndsWith(s, suffix) ==
    /\ Len(suffix) <= Len(s)
    /\ SubSeq(s, Len(s) - Len(suffix) + 1, Len(s)) = suffix

\* str.rstrip(c), str.lstrip(c), str.strip(c) for a one-character c
RECURSIVE RStrip(_, _)
RStrip(s, c) ==
    IF Len(s) > 0 /\ Char(s, Len(s)) = c THEN RStrip(SubSeq(s, 1, Len(s) - 1), c) ELSE s

RECURSIVE LStrip(_, _)
LStrip(s, c) ==
    IF Len(s) > 0 /\ Char(s, 1) = c THEN LStrip(From(s, 2), c) ELSE s

Strip(s, c) == LStrip(RStrip(s, c), c)

\* str.split(t): the pieces between the occurrences of t, empty pieces kept
RECURSIVE Split(_, _)
Split(s, t) ==
    LET i == Find(s, t)
    IN  IF i = 0 THEN <<s>>
        ELSE <<SubSeq(s, 1, i - 1)>> \o Split(From(s, i + Len(t)), t)

\* t.join(parts)
RECURSIVE Join(_, _)
Join(parts, t) ==
    IF parts = << >> THEN ""
    ELSE IF Len(parts) = 1 THEN Head(parts)
    ELSE Head(parts) \o t \o Join(Tail(parts), t)

\* str.replace(old, new)
RECURSIVE Replace(_, _, _)
Replace(s, old, new) ==
    LET i == Find(s, old)
    IN  IF i = 0 THEN s
        ELSE SubSeq(s, 1, i - 1) \o new \o Replace(From(s, i + Len(old)), old, new)

ASCII_UPPERCASE == "ABCDEFGHIJKLMNOPQRSTUVWXYZ"
ASCII_LOWERCASE == "abcdefghijklmnopqrstuvwxyz"
DIGITS == "0123456789"

\* the lower-case letter of each upper-case letter
LOWER_OF ==
    [c \in {Char(ASCII_UPPERCASE, i) : i \in 1..26} |->
        Char(ASCII_LOWERCASE, Find(ASCII_UPPERCASE, c))]

\* str.lower()
RECURSIVE Lower(_)
Lower(s) ==
    IF s = "" THEN ""
    ELSE (IF Char(s, 1) \in DOMAIN LOWER_OF THEN LOWER_OF[Char(s, 1)] ELSE Char(s, 1))
         \o Lower(From(s, 2))

\* every character of s is one of chars
AllIn(s, chars) == \A i \in 1..Len(s) : Contains(chars, Char(s, i))

\* x in list
InSeq(x, s) == \E i \in 1..Len(s) : s[i] = x

\* the last item of a list
Last(s) == s[Len(s)]

-----------------------------------------------------------------------------
(* urllib.parse *)

\* urlsplit: url[:i - 1] is a scheme, a letter followed by scheme_chars
IsScheme(url, i) ==
    /\ i > 1
    /\ Contains(ASCII_LOWERCASE \o ASCII_UPPERCASE, Char(url, 1))
    /\ AllIn(SubSeq(url, 1, i - 1),
             ASCII_LOWERCASE \o ASCII_UPPERCASE \o DIGITS \o "+-.")

\* urlsplit: the scheme, in lower case, and the rest of url, for i the
\* position of the first ":" (0 when there is none)
SplitScheme(url, i) ==
    IF IsScheme(url, i)
    THEN [scheme |-> Lower(SubSeq(url, 1, i - 1)), url |-> From(url, i + 1)]
    ELSE [scheme |-> "", url |-> url]

\* _splitnetloc(url, start - 1): url[start - 1:delim - 1] and
\* url[delim - 1:], for delim the place of the first of "/", "?" and "#"
_splitnetloc(url, start) ==
    LET \* the least of the positive numbers among a, b and c, or d when none is
        MinPositive(a, b, c, d) ==
            LET found == {x \in {a, b, c} : x > 0}
            IN  IF found = {} THEN d ELSE CHOOSE x \in found : \A y \in found : x <= y
        delim == MinPositive(FindFrom(url, "/", start), FindFrom(url, "?", start),
                             FindFrom(url, "#", start), Len(url) + 1)
    IN  [netloc |-> SubSeq(url, start, delim - 1), url |-> From(url, delim)]

\* s.split(t, 1), the second piece "" when the list has one item
SplitOnce(s, t) ==
    LET i == Find(s, t)
    IN  IF i = 0 THEN <<s, "">> ELSE <<SubSeq(s, 1, i - 1), From(s, i + Len(t))>>

\* urlsplit(url): [scheme, netloc, path, query, fragment]
urlsplit(url) ==
    LET by_scheme == SplitScheme(url, Find(url, ":"))
        by_netloc == IF StartsWith(by_scheme.url, "//")
                     THEN _splitnetloc(by_scheme.url, 3)
                     ELSE [netloc |-> "", url |-> by_scheme.url]
        by_fragment == SplitOnce(by_netloc.url, "#")
        by_query == SplitOnce(by_fragment[1], "?")
    IN  [fragment |-> by_fragment[2], netloc |-> by_netloc.netloc,
         path |-> by_query[1], query |-> by_query[2], scheme |-> by_scheme.scheme]

\* _splitparams(url)[0]
_splitparams(url) ==
    LET slash == RFindFrom(url, "/", Len(url))
        i == IF slash # 0 THEN FindFrom(url, ";", slash) ELSE Find(url, ";")
    IN  IF i = 0 THEN url ELSE SubSeq(url, 1, i - 1)

\* urlparse: the result for splitresult = urlsplit(url), the params cut off
\* the path for a scheme of uses_params
ParseResult(splitresult) ==
    IF /\ splitresult.scheme \in
             {"", "ftp", "hdl", "prospero", "http", "imap", "https", "shttp",
              "rtsp", "rtsps", "rtspu", "sip", "sips", "mms", "sftp", "tel"}
       /\ Contains(splitresult.path, ";")
    THEN [splitresult EXCEPT !.path = _splitparams(splitresult.path)]
    ELSE splitresult

\* urlparse(url)
urlparse(url) == ParseResult(urlsplit(url))
-----------------------------------------------------------------------------
(* datetime: the date of fromisoformat as _pydatetime.py reads it, the     *)
(* time as the C implementation (_datetimemodule.c) reads it, which is the *)
(* one CPython loads                                                       *)

\* s[i:j], with the positions of Python
Slice(s, i, j) ==
    LET hi == IF j < Len(s) THEN j ELSE Len(s)
    IN  IF i >= hi THEN "" ELSE SubSeq(s, i + 1, hi)

\* s[i], "" past the end
At(s, i) == Slice(s, i, i + 1)

_is_ascii_digit(c) == c # "" /\ Contains(DIGITS, c)

IsNumber(s) == s # "" /\ AllIn(s, DIGITS)

\* int(s) for a string of digits
RECURSIVE ToInt(_)
ToInt(s) ==
    IF s = "" THEN 0
    ELSE ToInt(SubSeq(s, 1, Len(s) - 1)) * 10 + (Find(DIGITS, Char(s, Len(s))) - 1)

_is_leap(year) == year % 4 = 0 /\ (year % 100 # 0 \/ year % 400 = 0)

_days_before_year(year) ==
    LET y == year - 1
    IN  y * 365 + (y \div 4) - (y \div 100) + (y \div 400)

\* _DAYS_IN_MONTH[month], 29 for the February of a leap year
_days_in_month(year, month) ==
    IF month = 2 /\ _is_leap(year) THEN 29
    ELSE <<31, 28, 31, 30, 31, 30, 31, 31, 30, 31, 30, 31>>[month]

\* _DAYS_BEFORE_MONTH[month], and the leap day after February
_days_before_month(year, month) ==
    <<0, 31, 59, 90, 120, 151, 181, 212, 243, 273, 304, 334>>[month]
        + (IF month > 2 /\ _is_leap(year) THEN 1 ELSE 0)

_ymd2ord(year, month, day) ==
    _days_before_year(year) + _days_before_month(year, month) + day

\* date(1970, 1, 1).toordinal()
EPOCH_ORDINAL == 719163

\* the ordinal of the last day a date can have, date.max.toordinal()
MAX_ORDINAL == 3652059

\* _isoweek1monday: the ordinal of the Monday of the ISO week 1 of year
_isoweek1monday(year) ==
    LET firstday == _ymd2ord(year, 1, 1)
        firstweekday == (firstday + 6) % 7
    IN  IF firstweekday > 3 THEN firstday - firstweekday + 7
        ELSE firstday - firstweekday

\* the result of a date that is out of range or cannot be read
InvalidDate == [ok |-> FALSE, ordinal |-> 0]

\* date(year, month, day) of a day given by its ordinal
DateOfOrdinal(ordinal) ==
    IF ordinal < 1 \/ ordinal > MAX_ORDINAL THEN InvalidDate
    ELSE [ok |-> TRUE, ordinal |-> ordinal]

\* _isoweek_to_gregorian, as the ordinal of the day: [ok, ordinal]
_isoweek_to_gregorian(year, week, day) ==
    IF \/ year < 1 \/ year > 9999
       \/ ~ \/ (0 < week /\ week < 53)
            \/ /\ week = 53
               /\ \/ _ymd2ord(year, 1, 1) % 7 = 4
                  \/ (_ymd2ord(year, 1, 1) % 7 = 3 /\ _is_leap(year))
       \/ day < 1 \/ day > 7
    THEN InvalidDate
    ELSE DateOfOrdinal(_isoweek1monday(year) + (week - 1) * 7 + (day - 1))

\* the end of the run of digits of s that starts at idx
RECURSIVE SkipDigits(_, _)
SkipDigits(s, idx) ==
    IF idx < Len(s) /\ _is_ascii_digit(At(s, idx)) THEN SkipDigits(s, idx + 1) ELSE idx

\* the place of a separator: [at, ok]; ok is FALSE where there is none
SeparatorAt(n) == [at |-> n, ok |-> TRUE]

\* _find_isoformat_datetime_separator: a week date without "-", for idx the
\* end of the digits after the W
BasicWeekSeparator(idx) ==
    IF idx < 9 THEN SeparatorAt(idx)
    ELSE IF idx % 2 = 0 THEN SeparatorAt(7) ELSE SeparatorAt(8)

\* _find_isoformat_datetime_separator, for a string of 7 characters or
\* more: [at, ok]
_find_isoformat_datetime_separator(dtstr) ==
    IF Len(dtstr) = 7 THEN SeparatorAt(7)
    ELSE IF At(dtstr, 4) = "-"
    THEN IF At(dtstr, 5) = "W"
         THEN IF Len(dtstr) < 8 THEN [at |-> 0, ok |-> FALSE]
              ELSE IF Len(dtstr) > 8 /\ At(dtstr, 8) = "-"
              THEN IF Len(dtstr) = 9 THEN [at |-> 0, ok |-> FALSE]
                   ELSE IF Len(dtstr) > 10 /\ _is_ascii_digit(At(dtstr, 10))
                   THEN SeparatorAt(8)
                   ELSE SeparatorAt(10)
              ELSE SeparatorAt(8)
         ELSE SeparatorAt(10)
    ELSE IF At(dtstr, 4) = "W"
    THEN BasicWeekSeparator(SkipDigits(dtstr, 7))
    ELSE SeparatorAt(8)

\* _parse_isoformat_date, the week date: week_str holds the week, the day
\* follows at after, has_sep tells that "-" separates the parts
ParseWeekDate(dtstr, year, week_str, after, has_sep) ==
    LET day_str == At(dtstr, IF has_sep THEN after + 1 ELSE after)
    IN  IF ~IsNumber(week_str) \/ Len(week_str) # 2 THEN InvalidDate
        ELSE IF Len(dtstr) <= after
        THEN _isoweek_to_gregorian(year, ToInt(week_str), 1)
        ELSE IF (At(dtstr, after) = "-") # has_sep THEN InvalidDate
        ELSE IF ~IsNumber(day_str) THEN InvalidDate
        ELSE _isoweek_to_gregorian(year, ToInt(week_str), ToInt(day_str))

\* date(year, month, day), as the ordinal of the day
DateOf(year, month, day) ==
    IF year < 1 \/ month < 1 \/ month > 12 THEN InvalidDate
    ELSE IF day < 1 \/ day > _days_in_month(year, month) THEN InvalidDate
    ELSE [ok |-> TRUE, ordinal |-> _ymd2ord(year, month, day)]

\* _parse_isoformat_date, the calendar date: month_str holds the month, the
\* day follows at after
ParseCalendarDate(dtstr, year, month_str, after, has_sep) ==
    LET pos == IF has_sep THEN after + 1 ELSE after
        day_str == Slice(dtstr, pos, pos + 2)
    IN  IF ~IsNumber(month_str) \/ Len(month_str) # 2 THEN InvalidDate
        ELSE IF (At(dtstr, after) = "-") # has_sep THEN InvalidDate
        ELSE IF ~IsNumber(day_str) \/ Len(day_str) # 2 THEN InvalidDate
        ELSE DateOf(year, ToInt(month_str), ToInt(day_str))

\* _parse_isoformat_date, after the year: pos is the place of the month or
\* of the W
ParseDateAfterYear(dtstr, year_str, pos, has_sep) ==
    IF ~IsNumber(year_str) \/ Len(year_str) # 4 THEN InvalidDate
    ELSE IF At(dtstr, pos) = "W"
    THEN ParseWeekDate(dtstr, ToInt(year_str), Slice(dtstr, pos + 1, pos + 3),
                       pos + 3, has_sep)
    ELSE ParseCalendarDate(dtstr, ToInt(year_str), Slice(dtstr, pos, pos + 2),
                           pos + 2, has_sep)

\* _parse_isoformat_date, as the ordinal of the day: [ok, ordinal]
_parse_isoformat_date(dtstr) ==
    IF At(dtstr, 4) = "-"
    THEN ParseDateAfterYear(dtstr, Slice(dtstr, 0, 4), 5, TRUE)
    ELSE ParseDateAfterYear(dtstr, Slice(dtstr, 0, 4), 4, FALSE)

\* the result of parse_hh_mm_ss_ff: comps is <<HH, MM, SS, ffffff>>, rv the
\* return code: 0 at the end of the string, 1 when text is left, negative
\* when a component is broken
Comps(rv, vals, microsecond) ==
    [comps |-> <<vals[1], vals[2], vals[3], microsecond>>, rv |-> rv]

\* parse_hh_mm_ss_ff returns -3 or -4
InvalidComps == Comps(0 - 3, <<0, 0, 0>>, 0)

\* parse_hh_mm_ss_ff, after the loop over HH, MM, SS: the fraction at p, of
\* at most 6 digits, in the part of tstr that ends at p_end; the digits
\* after them are skipped, then the end of the string is tested
ParseFraction(tstr, p_end, p, vals) ==
    LET to_parse == IF p_end - p >= 6 THEN 6 ELSE p_end - p
        digits == Slice(tstr, p, p + to_parse)
    IN  IF Len(digits) # to_parse \/ ~IsNumber(digits) THEN InvalidComps
        ELSE Comps(IF At(tstr, SkipDigits(tstr, p + to_parse)) # "" THEN 1 ELSE 0,
                   vals,
                   IF to_parse < 6
                   THEN ToInt(digits) * <<100000, 10000, 1000, 100, 10>>[to_parse]
                   ELSE ToInt(digits))

\* parse_hh_mm_ss_ff, the loop at the component i (0: HH, 1: MM, 2: SS),
\* which starts at p: its two digits (parse_digits) are followed by c (""
\* at the end of the string); the loop goes on behind c or, without a
\* separator, at c, to the next component or, after the third, to the
\* fraction
RECURSIVE ParseComps(_, _, _, _, _, _)
ParseComps(tstr, p_end, i, p, has_separator, vals) ==
    LET digits == Slice(tstr, p, p + 2)
        c == At(tstr, p + 2)
        separated == IF i = 0 THEN c = ":" ELSE has_separator
        read == [vals EXCEPT ![i + 1] = ToInt(digits)]
        NextComp(next) ==
            IF i = 2 THEN ParseFraction(tstr, p_end, next, read)
            ELSE ParseComps(tstr, p_end, i + 1, next, separated, read)
    IN  IF Len(digits) # 2 \/ ~IsNumber(digits) THEN InvalidComps
        ELSE IF p + 3 >= p_end THEN Comps(IF c # "" THEN 1 ELSE 0, read, 0)
        ELSE IF separated /\ c = ":" THEN NextComp(p + 3)
        ELSE IF c = "." \/ c = "," THEN ParseFraction(tstr, p_end, p + 3, read)
        ELSE IF ~separated THEN NextComp(p + 2)
        ELSE InvalidComps

\* parse_hh_mm_ss_ff(tstr, tstr + p_end, ...): [comps, rv]; tstr runs to
\* the end of the whole string, the part to read ends at p_end
parse_hh_mm_ss_ff(tstr, p_end) == ParseComps(tstr, p_end, 0, 0, TRUE, <<0, 0, 0>>)

\* parse_isoformat_time: the place of the first of Z, + and - at or after
\* pos, the length of dtstr when there is none (do ... while)
RECURSIVE TzInfoPos(_, _)
TzInfoPos(dtstr, pos) ==
    IF At(dtstr, pos) = "Z" \/ At(dtstr, pos) = "+" \/ At(dtstr, pos) = "-" THEN pos
    ELSE IF pos + 1 < Len(dtstr) THEN TzInfoPos(dtstr, pos + 1)
    ELSE pos + 1

\* the result of a time that cannot be read
InvalidTime ==
    [aware |-> FALSE, comps |-> <<0, 0, 0, 0>>, offset |-> <<0, 0>>, ok |-> FALSE]

\* a time of the components comps, without a time zone
NaiveTime(comps) ==
    [aware |-> FALSE, comps |-> comps, offset |-> <<0, 0>>, ok |-> TRUE]

\* tzinfo_from_isoformat_results and new_timezone: the time of the
\* components comps with the time zone of tzoffset seconds and tz_useconds
\* microseconds; the zone is UTC when tzoffset is 0, whatever tz_useconds,
\* and an offset of 24 hours or more is a ValueError
TimeInZone(comps, tzoffset, tz_useconds) ==
    IF tzoffset = 0
    THEN [aware |-> TRUE, comps |-> comps, offset |-> <<0, 0>>, ok |-> TRUE]
    ELSE IF tzoffset >= 86400 \/ tzoffset <= 0 - 86400 THEN InvalidTime
    ELSE [aware |-> TRUE, comps |-> comps, offset |-> <<tzoffset, tz_useconds>>,
          ok |-> TRUE]

\* parse_isoformat_time and tzinfo_from_isoformat_results: [aware, comps,
\* offset, ok]; offset is the UTC offset of the time zone as <<seconds,
\* microseconds>>, signed; ok is FALSE where a ValueError is raised.  The
\* time is read before tzinfo_pos, the place of the time zone (the length
\* of dtstr: no time zone), and the UTC offset behind it
parse_isoformat_time(dtstr) ==
    LET tzinfo_pos == TzInfoPos(dtstr, 0)
        time == parse_hh_mm_ss_ff(dtstr, tzinfo_pos)
        tz == parse_hh_mm_ss_ff(From(dtstr, tzinfo_pos + 2), Len(dtstr) - (tzinfo_pos + 1))
        tzsign == IF At(dtstr, tzinfo_pos) = "-" THEN 0 - 1 ELSE 1
    IN  IF time.rv < 0 THEN InvalidTime
        ELSE IF tzinfo_pos = Len(dtstr)
        THEN IF time.rv = 1 THEN InvalidTime ELSE NaiveTime(time.comps)
        ELSE IF At(dtstr, tzinfo_pos) = "Z"
        THEN IF At(dtstr, tzinfo_pos + 1) # "" THEN InvalidTime
             ELSE TimeInZone(time.comps, 0, 0)
        ELSE IF tz.rv # 0 THEN InvalidTime
        ELSE TimeInZone(time.comps,
                        tzsign * (tz.comps[1] * 3600 + tz.comps[2] * 60 + tz.comps[3]),
                        tzsign * tz.comps[4])

\* the datetime of a count of days and a count of microseconds, given as
\* seconds and microseconds, brought to 0 <= secs < 86400, 0 <= us < 10^6
Datetime(days, secs, us, aware) ==
    LET s1 == secs + ((us - (us % 1000000)) \div 1000000)
        d1 == days + ((s1 - (s1 % 86400)) \div 86400)
    IN  [aware |-> aware, days |-> d1, secs |-> s1 % 86400, us |-> us % 1000000]

\* the result of datetime.fromisoformat where Python raises ValueError
InvalidIsoFormat == [ok |-> FALSE, value |-> Datetime(0, 0, 0, FALSE)]

\* datetime.fromisoformat: the datetime of a date and a time that were read
DatetimeOf(date, time) ==
    LET c == time.comps
    IN  IF ~date.ok \/ ~time.ok THEN InvalidIsoFormat
        ELSE IF c[1] > 23 \/ c[2] > 59 \/ c[3] > 59 THEN InvalidIsoFormat
        ELSE [ok |-> TRUE,
              value |-> Datetime(date.ordinal - EPOCH_ORDINAL,
                                 c[1] * 3600 + c[2] * 60 + c[3] - time.offset[1],
                                 c[4] - time.offset[2], time.aware)]

\* datetime.fromisoformat: [ok, value]; ok is FALSE where Python raises
\* ValueError
FromIsoFormat(date_string) ==
    LET separator == _find_isoformat_datetime_separator(date_string)
    IN  IF Len(date_string) < 7 THEN InvalidIsoFormat
        ELSE IF ~separator.ok THEN InvalidIsoFormat
        ELSE DatetimeOf(_parse_isoformat_date(Slice(date_string, 0, separator.at)),
                        IF Len(date_string) <= separator.at
                        THEN NaiveTime(<<0, 0, 0, 0>>)
                        ELSE parse_isoformat_time(From(date_string, separator.at + 2)))

\* a > b on two naive or two aware datetimes
After(a, b) == 
    \/ a.days > b.days
    \/ a.days = b.days /\ a.secs > b.secs
    \/ a.days = b.days /\ a.secs = b.secs /\ a.us > b.us

-----------------------------------------------------------------------------
(* pydantic: HttpUrl, the labels of a host in punycode.  pydantic hands    *)
(* the host to the url crate, whose idna crate decodes the labels that     *)
(* start with xn-- and checks what they decode to against the tables of    *)
(* Unicode 15.1 (UTS 46, non-transitional, without the STD3 rules).        *)

\* the code points of an ASCII str; the printable characters are listed
\* from the space (32) on, a space in the place of the grave accent,
\* which a string cannot hold
CodePoints(s) ==
    LET printable ==
            " !\"#$%&'()*+,-./0123456789:;<=>?@ABCDEFGHIJKLMNOPQRSTUVWXYZ[\\]^_ abcdefghijklmnopqrstuvwxyz{|}~"
    IN  [j \in 1..Len(s) |-> Find(printable, Char(s, j)) + 31]

\* punycode.rs adapt: the bias after a delta, for the delta that is
\* divided by damp or by 2 and increased by its share of num_points
RECURSIVE adapt(_, _)
adapt(delta, k) ==
    IF delta > 455 THEN adapt(delta \div 35, k + 36)
    ELSE k + ((36 * delta) \div (delta + 38))

\* punycode.rs decode, the loops: the digit of input at p is added with
\* the weight w to i, the delta that started at previous; a..z are the
\* digits 0..25 and 0..9 the digits 26..35.  A digit below the threshold t
\* ends the delta, and its code point is inserted into output.  The
\* result is Some(code points), or None when the input is not punycode:
\* the code fails when a u32 overflows and when a code point is above
\* U+10FFFF or a surrogate.  A delta at or above limit gives a code point
\* above U+10FFFF, so the loop fails as soon as i reaches limit, and a
\* weight at or above limit, which only the digit 0 can follow, stays at
\* limit
RECURSIVE InsertDeltas(_, _, _, _, _, _, _, _, _)
InsertDeltas(input, p, output, n, bias, previous, i, w, k) ==
    LET digit == Find("abcdefghijklmnopqrstuvwxyz0123456789", Char(input, p)) - 1
        t == IF k <= bias THEN 1 ELSE IF k >= bias + 26 THEN 26 ELSE k - bias
        u32_max == (65535 \div (36 - t)) * 65536
                   + (((65535 % (36 - t)) * 65536 + 65535) \div (36 - t))
        length == Len(output) + 1
        limit == (1114112 - n) * length
        delta == i + digit * w
        code_point == n + (delta \div length)
        at == delta % length
        damped == IF previous = 0 THEN (delta - previous) \div 700
                  ELSE (delta - previous) \div 2
    IN  IF p > Len(input) THEN IF k = 36 THEN Some(output) ELSE None
        ELSE IF digit < 0 THEN None
        ELSE IF digit > 0 /\ w > (limit - 1 - i) \div digit THEN None
        ELSE IF digit >= t
        THEN IF w > u32_max THEN None
             ELSE InsertDeltas(input, p + 1, output, n, bias, previous, delta,
                               IF w > limit \div (36 - t) THEN limit ELSE w * (36 - t),
                               k + 36)
        ELSE IF code_point > 1114111 THEN None
        ELSE IF code_point >= 55296 /\ code_point <= 57343 THEN None
        ELSE InsertDeltas(input, p + 1,
                          SubSeq(output, 1, at) \o <<code_point>>
                              \o SubSeq(output, at + 1, Len(output)),
                          code_point, adapt(damped + (damped \div length), 0),
                          at + 1, at + 1, 1, 36)

\* punycode.rs decode: the code points a label spells after its xn--; the
\* characters before the last "-" stand for themselves, and a "-" that
\* is the first character is read as a digit, which it is not
decode(input) ==
    LET dash == RFindFrom(input, "-", Len(input))
    IN  InsertDeltas(IF dash = 1 THEN input ELSE From(input, dash + 1), 1,
                     CodePoints(SubSeq(input, 1, dash - 1)), 128, 72, 0, 0, 1, 36)

\* the valid code points of a label in ranges: <<first, last, Bidi class,
\* canonical combining class, joining type, is a mark>>; the Bidi class R
\* stands for R and AL, and ON for every neutral class
UNICODE_DATA == <<
    <<33, 47, "ON", 0, "U", FALSE>>, <<48, 57, "EN", 0, "U", FALSE>>,
    <<58, 64, "ON", 0, "U", FALSE>>, <<91, 96, "ON", 0, "U", FALSE>>,
    <<97, 122, "L", 0, "U", FALSE>>, <<123, 126, "ON", 0, "U", FALSE>>,
    <<161, 167, "ON", 0, "U", FALSE>>, <<169, 169, "ON", 0, "U", FALSE>>,
    <<171, 172, "ON", 0, "U", FALSE>>, <<174, 174, "ON", 0, "U", FALSE>>,
    <<176, 177, "ON", 0, "U", FALSE>>, <<182, 183, "ON", 0, "U", FALSE>>,
    <<187, 187, "ON", 0, "U", FALSE>>, <<191, 191, "ON", 0, "U", FALSE>>,
    <<215, 215, "ON", 0, "U", FALSE>>, <<223, 246, "L", 0, "U", FALSE>>,
    <<247, 247, "ON", 0, "U", FALSE>>, <<248, 255, "L", 0, "U", FALSE>>,
    <<257, 257, "L", 0, "U", FALSE>>, <<259, 259, "L", 0, "U", FALSE>>,
    <<261, 261, "L", 0, "U", FALSE>>, <<263, 263, "L", 0, "U", FALSE>>,
    <<265, 265, "L", 0, "U", FALSE>>, <<267, 267, "L", 0, "U", FALSE>>,
    <<269, 269, "L", 0, "U", FALSE>>, <<271, 271, "L", 0, "U", FALSE>>,
    <<273, 273, "L", 0, "U", FALSE>>, <<275, 275, "L", 0, "U", FALSE>>,
    <<277, 277, "L", 0, "U", FALSE>>, <<279, 279, "L", 0, "U", FALSE>>,
    <<281, 281, "L", 0, "U", FALSE>>, <<283, 283, "L", 0, "U", FALSE>>,
    <<285, 285, "L", 0, "U", FALSE>>, <<287, 287, "L", 0, "U", FALSE>>,
    <<289, 289, "L", 0, "U", FALSE>>, <<291, 291, "L", 0, "U", FALSE>>,
    <<293, 293, "L", 0, "U", FALSE>>, <<295, 295, "L", 0, "U", FALSE>>,
    <<297, 297, "L", 0, "U", FALSE>>, <<299, 299, "L", 0, "U", FALSE>>,
    <<301, 301, "L", 0, "U", FALSE>>, <<303, 303, "L", 0, "U", FALSE>>,
    <<305, 305, "L", 0, "U", FALSE>>, <<309, 309, "L", 0, "U", FALSE>>,
    <<311, 312, "L", 0, "U", FALSE>>, <<314, 314, "L", 0, "U", FALSE>>,
    <<316, 316, "L", 0, "U", FALSE>>, <<318, 318, "L", 0, "U", FALSE>>,
    <<322, 322, "L", 0, "U", FALSE>>, <<324, 324, "L", 0, "U", FALSE>>,
    <<326, 326, "L", 0, "U", FALSE>>, <<328, 328, "L", 0, "U", FALSE>>,
    <<331, 331, "L", 0, "U", FALSE>>, <<333, 333, "L", 0, "U", FALSE>>,
    <<335, 335, "L", 0, "U", FALSE>>, <<337, 337, "L", 0, "U", FALSE>>,
    <<339, 339, "L", 0, "U", FALSE>>, <<341, 341, "L", 0, "U", FALSE>>,
    <<343, 343, "L", 0, "U", FALSE>>, <<345, 345, "L", 0, "U", FALSE>>,
    <<347, 347, "L", 0, "U", FALSE>>, <<349, 349, "L", 0, "U", FALSE>>,
    <<351, 351, "L", 0, "U", FALSE>>, <<353, 353, "L", 0, "U", FALSE>>,
    <<355, 355, "L", 0, "U", FALSE>>, <<357, 357, "L", 0, "U", FALSE>>,
    <<359, 359, "L", 0, "U", FALSE>>, <<361, 361, "L", 0, "U", FALSE>>,
    <<363, 363, "L", 0, "U", FALSE>>, <<365, 365, "L", 0, "U", FALSE>>,
    <<367, 367, "L", 0, "U", FALSE>>, <<369, 369, "L", 0, "U", FALSE>>,
    <<371, 371, "L", 0, "U", FALSE>>, <<373, 373, "L", 0, "U", FALSE>>,
    <<375, 375, "L", 0, "U", FALSE>>, <<378, 378, "L", 0, "U", FALSE>>,
    <<380, 380, "L", 0, "U", FALSE>>, <<382, 382, "L", 0, "U", FALSE>>,
    <<384, 384, "L", 0, "U", FALSE>>, <<387, 387, "L", 0, "U", FALSE>>,
    <<389, 389, "L", 0, "U", FALSE>>, <<392, 392, "L", 0, "U", FALSE>>,
    <<396, 397, "L", 0, "U", FALSE>>, <<402, 402, "L", 0, "U", FALSE>>,
    <<405, 405, "L", 0, "U", FALSE>>, <<409, 411, "L", 0, "U", FALSE>>,
    <<414, 414, "L", 0, "U", FALSE>>, <<417, 417, "L", 0, "U", FALSE>>,
    <<419, 419, "L", 0, "U", FALSE>>, <<421, 421, "L", 0, "U", FALSE>>,
    <<424, 424, "L", 0, "U", FALSE>>, <<426, 427, "L", 0, "U", FALSE>>,
    <<429, 429, "L", 0, "U", FALSE>>, <<432, 432, "L", 0, "U", FALSE>>,
    <<436, 436, "L", 0, "U", FALSE>>, <<438, 438, "L", 0, "U", FALSE>>,
    <<441, 443, "L", 0, "U", FALSE>>, <<445, 451, "L", 0, "U", FALSE>>,
    <<462, 462, "L", 0, "U", FALSE>>, <<464, 464, "L", 0, "U", FALSE>>,
    <<466, 466, "L", 0, "U", FALSE>>, <<468, 468, "L", 0, "U", FALSE>>,
    <<470, 470, "L", 0, "U", FALSE>>, <<472, 472, "L", 0, "U", FALSE>>,
    <<474, 474, "L", 0, "U", FALSE>>, <<476, 477, "L", 0, "U", FALSE>>,
    <<479, 479, "L", 0, "U", FALSE>>, <<481, 481, "L", 0, "U", FALSE>>,
    <<483, 483, "L", 0, "U", FALSE>>, <<485, 485, "L", 0, "U", FALSE>>,
    <<487, 487, "L", 0, "U", FALSE>>, <<489, 489, "L", 0, "U", FALSE>>,
    <<491, 491, "L", 0, "U", FALSE>>, <<493, 493, "L", 0, "U", FALSE>>,
    <<495, 496, "L", 0, "U", FALSE>>, <<501, 501, "L", 0, "U", FALSE>>,
    <<505, 505, "L", 0, "U", FALSE>>, <<507, 507, "L", 0, "U", FALSE>>,
    <<509, 509, "L", 0, "U", FALSE>>, <<511, 511, "L", 0, "U", FALSE>>,
    <<513, 513, "L", 0, "U", FALSE>>, <<515, 515, "L", 0, "U", FALSE>>,
    <<517, 517, "L", 0, "U", FALSE>>, <<519, 519, "L", 0, "U", FALSE>>,
    <<521, 521, "L", 0, "U", FALSE>>, <<523, 523, "L", 0, "U", FALSE>>,
    <<525, 525, "L", 0, "U", FALSE>>, <<527, 527, "L", 0, "U", FALSE>>,
    <<529, 529, "L", 0, "U", FALSE>>, <<531, 531, "L", 0, "U", FALSE>>,
    <<533, 533, "L", 0, "U", FALSE>>, <<535, 535, "L", 0, "U", FALSE>>,
    <<537, 537, "L", 0, "U", FALSE>>, <<539, 539, "L", 0, "U", FALSE>>,
    <<541, 541, "L", 0, "U", FALSE>>, <<543, 543, "L", 0, "U", FALSE>>,
    <<545, 545, "L", 0, "U", FALSE>>, <<547, 547, "L", 0, "U", FALSE>>,
    <<549, 549, "L", 0, "U", FALSE>>, <<551, 551, "L", 0, "U", FALSE>>,
    <<553, 553, "L", 0, "U", FALSE>>, <<555, 555, "L", 0, "U", FALSE>>,
    <<557, 557, "L", 0, "U", FALSE>>, <<559, 559, "L", 0, "U", FALSE>>,
    <<561, 561, "L", 0, "U", FALSE>>, <<563, 569, "L", 0, "U", FALSE>>,
    <<572, 572, "L", 0, "U", FALSE>>, <<575, 576, "L", 0, "U", FALSE>>,
    <<578, 578, "L", 0, "U", FALSE>>, <<583, 583, "L", 0, "U", FALSE>>,
    <<585, 585, "L", 0, "U", FALSE>>, <<587, 587, "L", 0, "U", FALSE>>,
    <<589, 589, "L", 0, "U", FALSE>>, <<591, 687, "L", 0, "U", FALSE>>,
    <<697, 698, "ON", 0, "U", FALSE>>, <<699, 705, "L", 0, "U", FALSE>>,
    <<706, 719, "ON", 0, "U", FALSE>>, <<720, 721, "L", 0, "U", FALSE>>,
    <<722, 727, "ON", 0, "U", FALSE>>, <<734, 735, "ON", 0, "U", FALSE>>,
    <<741, 749, "ON", 0, "U", FALSE>>, <<750, 750, "L", 0, "U", FALSE>>,
    <<751, 767, "ON", 0, "U", FALSE>>, <<768, 788, "NSM", 230, "T", TRUE>>,
    <<789, 789, "NSM", 232, "T", TRUE>>, <<790, 793, "NSM", 220, "T", TRUE>>,
    <<794, 794, "NSM", 232, "T", TRUE>>, <<795, 795, "NSM", 216, "T", TRUE>>,
    <<796, 800, "NSM", 220, "T", TRUE>>, <<801, 802, "NSM", 202, "T", TRUE>>,
    <<803, 806, "NSM", 220, "T", TRUE>>, <<807, 808, "NSM", 202, "T", TRUE>>,
    <<809, 819, "NSM", 220, "T", TRUE>>, <<820, 824, "NSM", 1, "T", TRUE>>,
    <<825, 828, "NSM", 220, "T", TRUE>>, <<829, 831, "NSM", 230, "T", TRUE>>,
    <<834, 834, "NSM", 230, "T", TRUE>>, <<838, 838, "NSM", 230, "T", TRUE>>,
    <<839, 841, "NSM", 220, "T", TRUE>>, <<842, 844, "NSM", 230, "T", TRUE>>,
    <<845, 846, "NSM", 220, "T", TRUE>>, <<848, 850, "NSM", 230, "T", TRUE>>,
    <<851, 854, "NSM", 220, "T", TRUE>>, <<855, 855, "NSM", 230, "T", TRUE>>,
    <<856, 856, "NSM", 232, "T", TRUE>>, <<857, 858, "NSM", 220, "T", TRUE>>,
    <<859, 859, "NSM", 230, "T", TRUE>>, <<860, 860, "NSM", 233, "T", TRUE>>,
    <<861, 862, "NSM", 234, "T", TRUE>>, <<863, 863, "NSM", 233, "T", TRUE>>,
    <<864, 865, "NSM", 234, "T", TRUE>>, <<866, 866, "NSM", 233, "T", TRUE>>,
    <<867, 879, "NSM", 230, "T", TRUE>>, <<881, 881, "L", 0, "U", FALSE>>,
    <<883, 883, "L", 0, "U", FALSE>>, <<885, 885, "ON", 0, "U", FALSE>>,
    <<887, 887, "L", 0, "U", FALSE>>, <<891, 893, "L", 0, "U", FALSE>>,
    <<912, 912, "L", 0, "U", FALSE>>, <<940, 974, "L", 0, "U", FALSE>>,
    <<983, 983, "L", 0, "U", FALSE>>, <<985, 985, "L", 0, "U", FALSE>>,
    <<987, 987, "L", 0, "U", FALSE>>, <<989, 989, "L", 0, "U", FALSE>>,
    <<991, 991, "L", 0, "U", FALSE>>, <<993, 993, "L", 0, "U", FALSE>>,
    <<995, 995, "L", 0, "U", FALSE>>, <<997, 997, "L", 0, "U", FALSE>>,
    <<999, 999, "L", 0, "U", FALSE>>, <<1001, 1001, "L", 0, "U", FALSE>>,
    <<1003, 1003, "L", 0, "U", FALSE>>, <<1005, 1005, "L", 0, "U", FALSE>>,
    <<1007, 1007, "L", 0, "U", FALSE>>, <<1011, 1011, "L", 0, "U", FALSE>>,
    <<1014, 1014, "ON", 0, "U", FALSE>>, <<1016, 1016, "L", 0, "U", FALSE>>,
    <<1019, 1020, "L", 0, "U", FALSE>>, <<1072, 1119, "L", 0, "U", FALSE>>,
    <<1121, 1121, "L", 0, "U", FALSE>>, <<1123, 1123, "L", 0, "U", FALSE>>,
    <<1125, 1125, "L", 0, "U", FALSE>>, <<1127, 1127, "L", 0, "U", FALSE>>,
    <<1129, 1129, "L", 0, "U", FALSE>>, <<1131, 1131, "L", 0, "U", FALSE>>,
    <<1133, 1133, "L", 0, "U", FALSE>>, <<1135, 1135, "L", 0, "U", FALSE>>,
    <<1137, 1137, "L", 0, "U", FALSE>>, <<1139, 1139, "L", 0, "U", FALSE>>,
    <<1141, 1141, "L", 0, "U", FALSE>>, <<1143, 1143, "L", 0, "U", FALSE>>,
    <<1145, 1145, "L", 0, "U", FALSE>>, <<1147, 1147, "L", 0, "U", FALSE>>,
    <<1149, 1149, "L", 0, "U", FALSE>>, <<1151, 1151, "L", 0, "U", FALSE>>,
    <<1153, 1154, "L", 0, "U", FALSE>>, <<1155, 1159, "NSM", 230, "T", TRUE>>,
    <<1160, 1161, "NSM", 0, "T", TRUE>>, <<1163, 1163, "L", 0, "U", FALSE>>,
    <<1165, 1165, "L", 0, "U", FALSE>>, <<1167, 1167, "L", 0, "U", FALSE>>,
    <<1169, 1169, "L", 0, "U", FALSE>>, <<1171, 1171, "L", 0, "U", FALSE>>,
    <<1173, 1173, "L", 0, "U", FALSE>>, <<1175, 1175, "L", 0, "U", FALSE>>,
    <<1177, 1177, "L", 0, "U", FALSE>>, <<1179, 1179, "L", 0, "U", FALSE>>,
    <<1181, 1181, "L", 0, "U", FALSE>>, <<1183, 1183, "L", 0, "U", FALSE>>,
    <<1185, 1185, "L", 0, "U", FALSE>>, <<1187, 1187, "L", 0, "U", FALSE>>,
    <<1189, 1189, "L", 0, "U", FALSE>>, <<1191, 1191, "L", 0, "U", FALSE>>,
    <<1193, 1193, "L", 0, "U", FALSE>>, <<1195, 1195, "L", 0, "U", FALSE>>,
    <<1197, 1197, "L", 0, "U", FALSE>>, <<1199, 1199, "L", 0, "U", FALSE>>,
    <<1201, 1201, "L", 0, "U", FALSE>>, <<1203, 1203, "L", 0, "U", FALSE>>,
    <<1205, 1205, "L", 0, "U", FALSE>>, <<1207, 1207, "L", 0, "U", FALSE>>,
    <<1209, 1209, "L", 0, "U", FALSE>>, <<1211, 1211, "L", 0, "U", FALSE>>,
    <<1213, 1213, "L", 0, "U", FALSE>>, <<1215, 1215, "L", 0, "U", FALSE>>,
    <<1218, 1218, "L", 0, "U", FALSE>>, <<1220, 1220, "L", 0, "U", FALSE>>,
    <<1222, 1222, "L", 0, "U", FALSE>>, <<1224, 1224, "L", 0, "U", FALSE>>,
    <<1226, 1226, "L", 0, "U", FALSE>>, <<1228, 1228, "L", 0, "U", FALSE>>,
    <<1230, 1231, "L", 0, "U", FALSE>>, <<1233, 1233, "L", 0, "U", FALSE>>,
    <<1235, 1235, "L", 0, "U", FALSE>>, <<1237, 1237, "L", 0, "U", FALSE>>,
    <<1239, 1239, "L", 0, "U", FALSE>>, <<1241, 1241, "L", 0, "U", FALSE>>,
    <<1243, 1243, "L", 0, "U", FALSE>>, <<1245, 1245, "L", 0, "U", FALSE>>,
    <<1247, 1247, "L", 0, "U", FALSE>>, <<1249, 1249, "L", 0, "U", FALSE>>,
    <<1251, 1251, "L", 0, "U", FALSE>>, <<1253, 1253, "L", 0, "U", FALSE>>,
    <<1255, 1255, "L", 0, "U", FALSE>>, <<1257, 1257, "L", 0, "U", FALSE>>,
    <<1259, 1259, "L", 0, "U", FALSE>>, <<1261, 1261, "L", 0, "U", FALSE>>,
    <<1263, 1263, "L", 0, "U", FALSE>>, <<1265, 1265, "L", 0, "U", FALSE>>,
    <<1267, 1267, "L", 0, "U", FALSE>>, <<1269, 1269, "L", 0, "U", FALSE>>,
    <<1271, 1271, "L", 0, "U", FALSE>>, <<1273, 1273, "L", 0, "U", FALSE>>,
    <<1275, 1275, "L", 0, "U", FALSE>>, <<1277, 1277, "L", 0, "U", FALSE>>,
    <<1279, 1279, "L", 0, "U", FALSE>>, <<1281, 1281, "L", 0, "U", FALSE>>,
    <<1283, 1283, "L", 0, "U", FALSE>>, <<1285, 1285, "L", 0, "U", FALSE>>,
    <<1287, 1287, "L", 0, "U", FALSE>>, <<1289, 1289, "L", 0, "U", FALSE>>,
    <<1291, 1291, "L", 0, "U", FALSE>>, <<1293, 1293, "L", 0, "U", FALSE>>,
    <<1295, 1295, "L", 0, "U", FALSE>>, <<1297, 1297, "L", 0, "U", FALSE>>,
    <<1299, 1299, "L", 0, "U", FALSE>>, <<1301, 1301, "L", 0, "U", FALSE>>,
    <<1303, 1303, "L", 0, "U", FALSE>>, <<1305, 1305, "L", 0, "U", FALSE>>,
    <<1307, 1307, "L", 0, "U", FALSE>>, <<1309, 1309, "L", 0, "U", FALSE>>,
    <<1311, 1311, "L", 0, "U", FALSE>>, <<1313, 1313, "L", 0, "U", FALSE>>,
    <<1315, 1315, "L", 0, "U", FALSE>>, <<1317, 1317, "L", 0, "U", FALSE>>,
    <<1319, 1319, "L", 0, "U", FALSE>>, <<1321, 1321, "L", 0, "U", FALSE>>,
    <<1323, 1323, "L", 0, "U", FALSE>>, <<1325, 1325, "L", 0, "U", FALSE>>,
    <<1327, 1327, "L", 0, "U", FALSE>>, <<1369, 1414, "L", 0, "U", FALSE>>,
    <<1416, 1417, "L", 0, "U", FALSE>>, <<1418, 1418, "ON", 0, "U", FALSE>>,
    <<1421, 1423, "ON", 0, "U", FALSE>>, <<1425, 1425, "NSM", 220, "T", TRUE>>,
    <<1426, 1429, "NSM", 230, "T", TRUE>>, <<1430, 1430, "NSM", 220, "T", TRUE>>,
    <<1431, 1433, "NSM", 230, "T", TRUE>>, <<1434, 1434, "NSM", 222, "T", TRUE>>,
    <<1435, 1435, "NSM", 220, "T", TRUE>>, <<1436, 1441, "NSM", 230, "T", TRUE>>,
    <<1442, 1447, "NSM", 220, "T", TRUE>>, <<1448, 1449, "NSM", 230, "T", TRUE>>,
    <<1450, 1450, "NSM", 220, "T", TRUE>>, <<1451, 1452, "NSM", 230, "T", TRUE>>,
    <<1453, 1453, "NSM", 222, "T", TRUE>>, <<1454, 1454, "NSM", 228, "T", TRUE>>,
    <<1455, 1455, "NSM", 230, "T", TRUE>>, <<1456, 1456, "NSM", 10, "T", TRUE>>,
    <<1457, 1457, "NSM", 11, "T", TRUE>>, <<1458, 1458, "NSM", 12, "T", TRUE>>,
    <<1459, 1459, "NSM", 13, "T", TRUE>>, <<1460, 1460, "NSM", 14, "T", TRUE>>,
    <<1461, 1461, "NSM", 15, "T", TRUE>>, <<1462, 1462, "NSM", 16, "T", TRUE>>,
    <<1463, 1463, "NSM", 17, "T", TRUE>>, <<1464, 1464, "NSM", 18, "T", TRUE>>,
    <<1465, 1466, "NSM", 19, "T", TRUE>>, <<1467, 1467, "NSM", 20, "T", TRUE>>,
    <<1468, 1468, "NSM", 21, "T", TRUE>>, <<1469, 1469, "NSM", 22, "T", TRUE>>,
    <<1470, 1470, "R", 0, "U", FALSE>>, <<1471, 1471, "NSM", 23, "T", TRUE>>,
    <<1472, 1472, "R", 0, "U", FALSE>>, <<1473, 1473, "NSM", 24, "T", TRUE>>,
    <<1474, 1474, "NSM", 25, "T", TRUE>>, <<1475, 1475, "R", 0, "U", FALSE>>,
    <<1476, 1476, "NSM", 230, "T", TRUE>>, <<1477, 1477, "NSM", 220, "T", TRUE>>,
    <<1478, 1478, "R", 0, "U", FALSE>>, <<1479, 1479, "NSM", 18, "T", TRUE>>,
    <<1488, 1514, "R", 0, "U", FALSE>>, <<1519, 1524, "R", 0, "U", FALSE>>,
    <<1542, 1543, "ON", 0, "U", FALSE>>, <<1544, 1544, "R", 0, "U", FALSE>>,
    <<1545, 1546, "ON", 0, "U", FALSE>>, <<1547, 1547, "R", 0, "U", FALSE>>,
    <<1548, 1548, "ON", 0, "U", FALSE>>, <<1549, 1549, "R", 0, "U", FALSE>>,
    <<1550, 1551, "ON", 0, "U", FALSE>>, <<1552, 1559, "NSM", 230, "T", TRUE>>,
    <<1560, 1560, "NSM", 30, "T", TRUE>>, <<1561, 1561, "NSM", 31, "T", TRUE>>,
    <<1562, 1562, "NSM", 32, "T", TRUE>>, <<1563, 1563, "R", 0, "U", FALSE>>,
    <<1565, 1567, "R", 0, "U", FALSE>>, <<1568, 1568, "R", 0, "D", FALSE>>,
    <<1569, 1569, "R", 0, "U", FALSE>>, <<1570, 1573, "R", 0, "R", FALSE>>,
    <<1574, 1574, "R", 0, "D", FALSE>>, <<1575, 1575, "R", 0, "R", FALSE>>,
    <<1576, 1576, "R", 0, "D", FALSE>>, <<1577, 1577, "R", 0, "R", FALSE>>,
    <<1578, 1582, "R", 0, "D", FALSE>>, <<1583, 1586, "R", 0, "R", FALSE>>,
    <<1587, 1599, "R", 0, "D", FALSE>>, <<1600, 1600, "R", 0, "U", FALSE>>,
    <<1601, 1607, "R", 0, "D", FALSE>>, <<1608, 1608, "R", 0, "R", FALSE>>,
    <<1609, 1610, "R", 0, "D", FALSE>>, <<1611, 1611, "NSM", 27, "T", TRUE>>,
    <<1612, 1612, "NSM", 28, "T", TRUE>>, <<1613, 1613, "NSM", 29, "T", TRUE>>,
    <<1614, 1614, "NSM", 30, "T", TRUE>>, <<1615, 1615, "NSM", 31, "T", TRUE>>,
    <<1616, 1616, "NSM", 32, "T", TRUE>>, <<1617, 1617, "NSM", 33, "T", TRUE>>,
    <<1618, 1618, "NSM", 34, "T", TRUE>>, <<1619, 1620, "NSM", 230, "T", TRUE>>,
    <<1621, 1622, "NSM", 220, "T", TRUE>>, <<1623, 1627, "NSM", 230, "T", TRUE>>,
    <<1628, 1628, "NSM", 220, "T", TRUE>>, <<1629, 1630, "NSM", 230, "T", TRUE>>,
    <<1631, 1631, "NSM", 220, "T", TRUE>>, <<1632, 1641, "AN", 0, "U", FALSE>>,
    <<1642, 1642, "ON", 0, "U", FALSE>>, <<1643, 1644, "AN", 0, "U", FALSE>>,
    <<1645, 1645, "R", 0, "U", FALSE>>, <<1646, 1647, "R", 0, "D", FALSE>>,
    <<1648, 1648, "NSM", 35, "T", TRUE>>, <<1649, 1651, "R", 0, "R", FALSE>>,
    <<1652, 1652, "R", 0, "U", FALSE>>, <<1657, 1671, "R", 0, "D", FALSE>>,
    <<1672, 1689, "R", 0, "R", FALSE>>, <<1690, 1727, "R", 0, "D", FALSE>>,
    <<1728, 1728, "R", 0, "R", FALSE>>, <<1729, 1730, "R", 0, "D", FALSE>>,
    <<1731, 1739, "R", 0, "R", FALSE>>, <<1740, 1740, "R", 0, "D", FALSE>>,
    <<1741, 1741, "R", 0, "R", FALSE>>, <<1742, 1742, "R", 0, "D", FALSE>>,
    <<1743, 1743, "R", 0, "R", FALSE>>, <<1744, 1745, "R", 0, "D", FALSE>>,
    <<1746, 1747, "R", 0, "R", FALSE>>, <<1748, 1748, "R", 0, "U", FALSE>>,
    <<1749, 1749, "R", 0, "R", FALSE>>, <<1750, 1756, "NSM", 230, "T", TRUE>>,
    <<1758, 1758, "ON", 0, "U", FALSE>>, <<1759, 1762, "NSM", 230, "T", TRUE>>,
    <<1763, 1763, "NSM", 220, "T", TRUE>>, <<1764, 1764, "NSM", 230, "T", TRUE>>,
    <<1765, 1766, "R", 0, "U", FALSE>>, <<1767, 1768, "NSM", 230, "T", TRUE>>,
    <<1769, 1769, "ON", 0, "U", FALSE>>, <<1770, 1770, "NSM", 220, "T", TRUE>>,
    <<1771, 1772, "NSM", 230, "T", TRUE>>, <<1773, 1773, "NSM", 220, "T", TRUE>>,
    <<1774, 1775, "R", 0, "R", FALSE>>, <<1776, 1785, "EN", 0, "U", FALSE>>,
    <<1786, 1788, "R", 0, "D", FALSE>>, <<1789, 1790, "R", 0, "U", FALSE>>,
    <<1791, 1791, "R", 0, "D", FALSE>>, <<1792, 1805, "R", 0, "U", FALSE>>,
    <<1808, 1808, "R", 0, "R", FALSE>>, <<1809, 1809, "NSM", 36, "T", TRUE>>,
    <<1810, 1812, "R", 0, "D", FALSE>>, <<1813, 1817, "R", 0, "R", FALSE>>,
    <<1818, 1821, "R", 0, "D", FALSE>>, <<1822, 1822, "R", 0, "R", FALSE>>,
    <<1823, 1831, "R", 0, "D", FALSE>>, <<1832, 1832, "R", 0, "R", FALSE>>,
    <<1833, 1833, "R", 0, "D", FALSE>>, <<1834, 1834, "R", 0, "R", FALSE>>,
    <<1835, 1835, "R", 0, "D", FALSE>>, <<1836, 1836, "R", 0, "R", FALSE>>,
    <<1837, 1838, "R", 0, "D", FALSE>>, <<1839, 1839, "R", 0, "R", FALSE>>,
    <<1840, 1840, "NSM", 230, "T", TRUE>>, <<1841, 1841, "NSM", 220, "T", TRUE>>,
    <<1842, 1843, "NSM", 230, "T", TRUE>>, <<1844, 1844, "NSM", 220, "T", TRUE>>,
    <<1845, 1846, "NSM", 230, "T", TRUE>>, <<1847, 1849, "NSM", 220, "T", TRUE>>,
    <<1850, 1850, "NSM", 230, "T", TRUE>>, <<1851, 1852, "NSM", 220, "T", TRUE>>,
    <<1853, 1853, "NSM", 230, "T", TRUE>>, <<1854, 1854, "NSM", 220, "T", TRUE>>,
    <<1855, 1857, "NSM", 230, "T", TRUE>>, <<1858, 1858, "NSM", 220, "T", TRUE>>,
    <<1859, 1859, "NSM", 230, "T", TRUE>>, <<1860, 1860, "NSM", 220, "T", TRUE>>,
    <<1861, 1861, "NSM", 230, "T", TRUE>>, <<1862, 1862, "NSM", 220, "T", TRUE>>,
    <<1863, 1863, "NSM", 230, "T", TRUE>>, <<1864, 1864, "NSM", 220, "T", TRUE>>,
    <<1865, 1866, "NSM", 230, "T", TRUE>>, <<1869, 1869, "R", 0, "R", FALSE>>,
    <<1870, 1880, "R", 0, "D", FALSE>>, <<1881, 1883, "R", 0, "R", FALSE>>,
    <<1884, 1898, "R", 0, "D", FALSE>>, <<1899, 1900, "R", 0, "R", FALSE>>,
    <<1901, 1904, "R", 0, "D", FALSE>>, <<1905, 1905, "R", 0, "R", FALSE>>,
    <<1906, 1906, "R", 0, "D", FALSE>>, <<1907, 1908, "R", 0, "R", FALSE>>,
    <<1909, 1911, "R", 0, "D", FALSE>>, <<1912, 1913, "R", 0, "R", FALSE>>,
    <<1914, 1919, "R", 0, "D", FALSE>>, <<1920, 1957, "R", 0, "U", FALSE>>,
    <<1958, 1968, "NSM", 0, "T", TRUE>>, <<1969, 1969, "R", 0, "U", FALSE>>,
    <<1984, 1993, "R", 0, "U", FALSE>>, <<1994, 2026, "R", 0, "D", FALSE>>,
    <<2027, 2033, "NSM", 230, "T", TRUE>>, <<2034, 2034, "NSM", 220, "T", TRUE>>,
    <<2035, 2035, "NSM", 230, "T", TRUE>>, <<2036, 2037, "R", 0, "U", FALSE>>,
    <<2038, 2041, "ON", 0, "U", FALSE>>, <<2042, 2042, "R", 0, "U", FALSE>>,
    <<2045, 2045, "NSM", 220, "T", TRUE>>, <<2046, 2069, "R", 0, "U", FALSE>>,
    <<2070, 2073, "NSM", 230, "T", TRUE>>, <<2074, 2074, "R", 0, "U", FALSE>>,
    <<2075, 2083, "NSM", 230, "T", TRUE>>, <<2084, 2084, "R", 0, "U", FALSE>>,
    <<2085, 2087, "NSM", 230, "T", TRUE>>, <<2088, 2088, "R", 0, "U", FALSE>>,
    <<2089, 2093, "NSM", 230, "T", TRUE>>, <<2096, 2110, "R", 0, "U", FALSE>>,
    <<2112, 2112, "R", 0, "R", FALSE>>, <<2113, 2117, "R", 0, "D", FALSE>>,
    <<2118, 2119, "R", 0, "R", FALSE>>, <<2120, 2120, "R", 0, "D", FALSE>>,
    <<2121, 2121, "R", 0, "R", FALSE>>, <<2122, 2131, "R", 0, "D", FALSE>>,
    <<2132, 2132, "R", 0, "R", FALSE>>, <<2133, 2133, "R", 0, "D", FALSE>>,
    <<2134, 2136, "R", 0, "R", FALSE>>, <<2137, 2139, "NSM", 220, "T", TRUE>>,
    <<2142, 2142, "R", 0, "U", FALSE>>, <<2144, 2144, "R", 0, "D", FALSE>>,
    <<2145, 2145, "R", 0, "U", FALSE>>, <<2146, 2149, "R", 0, "D", FALSE>>,
    <<2150, 2150, "R", 0, "U", FALSE>>, <<2151, 2151, "R", 0, "R", FALSE>>,
    <<2152, 2152, "R", 0, "D", FALSE>>, <<2153, 2154, "R", 0, "R", FALSE>>,
    <<2160, 2178, "R", 0, "R", FALSE>>, <<2179, 2181, "R", 0, "U", FALSE>>,
    <<2182, 2182, "R", 0, "D", FALSE>>, <<2183, 2184, "R", 0, "U", FALSE>>,
    <<2185, 2189, "R", 0, "D", FALSE>>, <<2190, 2190, "R", 0, "R", FALSE>>,
    <<2200, 2200, "NSM", 230, "T", TRUE>>, <<2201, 2203, "NSM", 220, "T", TRUE>>,
    <<2204, 2207, "NSM", 230, "T", TRUE>>, <<2208, 2217, "R", 0, "D", FALSE>>,
    <<2218, 2220, "R", 0, "R", FALSE>>, <<2221, 2221, "R", 0, "U", FALSE>>,
    <<2222, 2222, "R", 0, "R", FALSE>>, <<2223, 2224, "R", 0, "D", FALSE>>,
    <<2225, 2226, "R", 0, "R", FALSE>>, <<2227, 2232, "R", 0, "D", FALSE>>,
    <<2233, 2233, "R", 0, "R", FALSE>>, <<2234, 2248, "R", 0, "D", FALSE>>,
    <<2249, 2249, "R", 0, "U", FALSE>>, <<2250, 2254, "NSM", 230, "T", TRUE>>,
    <<2255, 2259, "NSM", 220, "T", TRUE>>, <<2260, 2273, "NSM", 230, "T", TRUE>>,
    <<2275, 2275, "NSM", 220, "T", TRUE>>, <<2276, 2277, "NSM", 230, "T", TRUE>>,
    <<2278, 2278, "NSM", 220, "T", TRUE>>, <<2279, 2280, "NSM", 230, "T", TRUE>>,
    <<2281, 2281, "NSM", 220, "T", TRUE>>, <<2282, 2284, "NSM", 230, "T", TRUE>>,
    <<2285, 2287, "NSM", 220, "T", TRUE>>, <<2288, 2288, "NSM", 27, "T", TRUE>>,
    <<2289, 2289, "NSM", 28, "T", TRUE>>, <<2290, 2290, "NSM", 29, "T", TRUE>>,
    <<2291, 2293, "NSM", 230, "T", TRUE>>, <<2294, 2294, "NSM", 220, "T", TRUE>>,
    <<2295, 2296, "NSM", 230, "T", TRUE>>, <<2297, 2298, "NSM", 220, "T", TRUE>>,
    <<2299, 2303, "NSM", 230, "T", TRUE>>, <<2304, 2306, "NSM", 0, "T", TRUE>>,
    <<2307, 2307, "L", 0, "U", TRUE>>, <<2308, 2361, "L", 0, "U", FALSE>>,
    <<2362, 2362, "NSM", 0, "T", TRUE>>, <<2363, 2363, "L", 0, "U", TRUE>>,
    <<2364, 2364, "NSM", 7, "T", TRUE>>, <<2365, 2365, "L", 0, "U", FALSE>>,
    <<2366, 2368, "L", 0, "U", TRUE>>, <<2369, 2376, "NSM", 0, "T", TRUE>>,
    <<2377, 2380, "L", 0, "U", TRUE>>, <<2381, 2381, "NSM", 9, "T", TRUE>>,
    <<2382, 2383, "L", 0, "U", TRUE>>, <<2384, 2384, "L", 0, "U", FALSE>>,
    <<2385, 2385, "NSM", 230, "T", TRUE>>, <<2386, 2386, "NSM", 220, "T", TRUE>>,
    <<2387, 2388, "NSM", 230, "T", TRUE>>, <<2389, 2391, "NSM", 0, "T", TRUE>>,
    <<2400, 2401, "L", 0, "U", FALSE>>, <<2402, 2403, "NSM", 0, "T", TRUE>>,
    <<2404, 2432, "L", 0, "U", FALSE>>, <<2433, 2433, "NSM", 0, "T", TRUE>>,
    <<2434, 2435, "L", 0, "U", TRUE>>, <<2437, 2444, "L", 0, "U", FALSE>>,
    <<2447, 2448, "L", 0, "U", FALSE>>, <<2451, 2472, "L", 0, "U", FALSE>>,
    <<2474, 2480, "L", 0, "U", FALSE>>, <<2482, 2482, "L", 0, "U", FALSE>>,
    <<2486, 2489, "L", 0, "U", FALSE>>, <<2492, 2492, "NSM", 7, "T", TRUE>>,
    <<2493, 2493, "L", 0, "U", FALSE>>, <<2494, 2496, "L", 0, "U", TRUE>>,
    <<2497, 2500, "NSM", 0, "T", TRUE>>, <<2503, 2504, "L", 0, "U", TRUE>>,
    <<2507, 2508, "L", 0, "U", TRUE>>, <<2509, 2509, "NSM", 9, "T", TRUE>>,
    <<2510, 2510, "L", 0, "U", FALSE>>, <<2519, 2519, "L", 0, "U", TRUE>>,
    <<2528, 2529, "L", 0, "U", FALSE>>, <<2530, 2531, "NSM", 0, "T", TRUE>>,
    <<2534, 2545, "L", 0, "U", FALSE>>, <<2546, 2547, "ON", 0, "U", FALSE>>,
    <<2548, 2554, "L", 0, "U", FALSE>>, <<2555, 2555, "ON", 0, "U", FALSE>>,
    <<2556, 2557, "L", 0, "U", FALSE>>, <<2558, 2558, "NSM", 230, "T", TRUE>>,
    <<2561, 2562, "NSM", 0, "T", TRUE>>, <<2563, 2563, "L", 0, "U", TRUE>>,
    <<2565, 2570, "L", 0, "U", FALSE>>, <<2575, 2576, "L", 0, "U", FALSE>>,
    <<2579, 2600, "L", 0, "U", FALSE>>, <<2602, 2608, "L", 0, "U", FALSE>>,
    <<2610, 2610, "L", 0, "U", FALSE>>, <<2613, 2613, "L", 0, "U", FALSE>>,
    <<2616, 2617, "L", 0, "U", FALSE>>, <<2620, 2620, "NSM", 7, "T", TRUE>>,
    <<2622, 2624, "L", 0, "U", TRUE>>, <<2625, 2626, "NSM", 0, "T", TRUE>>,
    <<2631, 2632, "NSM", 0, "T", TRUE>>, <<2635, 2636, "NSM", 0, "T", TRUE>>,
    <<2637, 2637, "NSM", 9, "T", TRUE>>, <<2641, 2641, "NSM", 0, "T", TRUE>>,
    <<2652, 2652, "L", 0, "U", FALSE>>, <<2662, 2671, "L", 0, "U", FALSE>>,
    <<2672, 2673, "NSM", 0, "T", TRUE>>, <<2674, 2676, "L", 0, "U", FALSE>>,
    <<2677, 2677, "NSM", 0, "T", TRUE>>, <<2678, 2678, "L", 0, "U", FALSE>>,
    <<2689, 2690, "NSM", 0, "T", TRUE>>, <<2691, 2691, "L", 0, "U", TRUE>>,
    <<2693, 2701, "L", 0, "U", FALSE>>, <<2703, 2705, "L", 0, "U", FALSE>>,
    <<2707, 2728, "L", 0, "U", FALSE>>, <<2730, 2736, "L", 0, "U", FALSE>>,
    <<2738, 2739, "L", 0, "U", FALSE>>, <<2741, 2745, "L", 0, "U", FALSE>>,
    <<2748, 2748, "NSM", 7, "T", TRUE>>, <<2749, 2749, "L", 0, "U", FALSE>>,
    <<2750, 2752, "L", 0, "U", TRUE>>, <<2753, 2757, "NSM", 0, "T", TRUE>>,
    <<2759, 2760, "NSM", 0, "T", TRUE>>, <<2761, 2761, "L", 0, "U", TRUE>>,
    <<2763, 2764, "L", 0, "U", TRUE>>, <<2765, 2765, "NSM", 9, "T", TRUE>>,
    <<2768, 2768, "L", 0, "U", FALSE>>, <<2784, 2785, "L", 0, "U", FALSE>>,
    <<2786, 2787, "NSM", 0, "T", TRUE>>, <<2790, 2800, "L", 0, "U", FALSE>>,
    <<2801, 2801, "ON", 0, "U", FALSE>>, <<2809, 2809, "L", 0, "U", FALSE>>,
    <<2810, 2815, "NSM", 0, "T", TRUE>>, <<2817, 2817, "NSM", 0, "T", TRUE>>,
    <<2818, 2819, "L", 0, "U", TRUE>>, <<2821, 2828, "L", 0, "U", FALSE>>,
    <<2831, 2832, "L", 0, "U", FALSE>>, <<2835, 2856, "L", 0, "U", FALSE>>,
    <<2858, 2864, "L", 0, "U", FALSE>>, <<2866, 2867, "L", 0, "U", FALSE>>,
    <<2869, 2873, "L", 0, "U", FALSE>>, <<2876, 2876, "NSM", 7, "T", TRUE>>,
    <<2877, 2877, "L", 0, "U", FALSE>>, <<2878, 2878, "L", 0, "U", TRUE>>,
    <<2879, 2879, "NSM", 0, "T", TRUE>>, <<2880, 2880, "L", 0, "U", TRUE>>,
    <<2881, 2884, "NSM", 0, "T", TRUE>>, <<2887, 2888, "L", 0, "U", TRUE>>,
    <<2891, 2892, "L", 0, "U", TRUE>>, <<2893, 2893, "NSM", 9, "T", TRUE>>,
    <<2901, 2902, "NSM", 0, "T", TRUE>>, <<2903, 2903, "L", 0, "U", TRUE>>,
    <<2911, 2913, "L", 0, "U", FALSE>>, <<2914, 2915, "NSM", 0, "T", TRUE>>,
    <<2918, 2935, "L", 0, "U", FALSE>>, <<2946, 2946, "NSM", 0, "T", TRUE>>,
    <<2947, 2947, "L", 0, "U", FALSE>>, <<2949, 2954, "L", 0, "U", FALSE>>,
    <<2958, 2960, "L", 0, "U", FALSE>>, <<2962, 2965, "L", 0, "U", FALSE>>,
    <<2969, 2970, "L", 0, "U", FALSE>>, <<2972, 2972, "L", 0, "U", FALSE>>,
    <<2974, 2975, "L", 0, "U", FALSE>>, <<2979, 2980, "L", 0, "U", FALSE>>,
    <<2984, 2986, "L", 0, "U", FALSE>>, <<2990, 3001, "L", 0, "U", FALSE>>,
    <<3006, 3007, "L", 0, "U", TRUE>>, <<3008, 3008, "NSM", 0, "T", TRUE>>,
    <<3009, 3010, "L", 0, "U", TRUE>>, <<3014, 3016, "L", 0, "U", TRUE>>,
    <<3018, 3020, "L", 0, "U", TRUE>>, <<3021, 3021, "NSM", 9, "T", TRUE>>,
    <<3024, 3024, "L", 0, "U", FALSE>>, <<3031, 3031, "L", 0, "U", TRUE>>,
    <<3046, 3058, "L", 0, "U", FALSE>>, <<3059, 3066, "ON", 0, "U", FALSE>>,
    <<3072, 3072, "NSM", 0, "T", TRUE>>, <<3073, 3075, "L", 0, "U", TRUE>>,
    <<3076, 3076, "NSM", 0, "T", TRUE>>, <<3077, 3084, "L", 0, "U", FALSE>>,
    <<3086, 3088, "L", 0, "U", FALSE>>, <<3090, 3112, "L", 0, "U", FALSE>>,
    <<3114, 3129, "L", 0, "U", FALSE>>, <<3132, 3132, "NSM", 7, "T", TRUE>>,
    <<3133, 3133, "L", 0, "U", FALSE>>, <<3134, 3136, "NSM", 0, "T", TRUE>>,
    <<3137, 3140, "L", 0, "U", TRUE>>, <<3142, 3144, "NSM", 0, "T", TRUE>>,
    <<3146, 3148, "NSM", 0, "T", TRUE>>, <<3149, 3149, "NSM", 9, "T", TRUE>>,
    <<3157, 3157, "NSM", 84, "T", TRUE>>, <<3158, 3158, "NSM", 91, "T", TRUE>>,
    <<3160, 3162, "L", 0, "U", FALSE>>, <<3165, 3165, "L", 0, "U", FALSE>>,
    <<3168, 3169, "L", 0, "U", FALSE>>, <<3170, 3171, "NSM", 0, "T", TRUE>>,
    <<3174, 3183, "L", 0, "U", FALSE>>, <<3191, 3191, "L", 0, "U", FALSE>>,
    <<3192, 3198, "ON", 0, "U", FALSE>>, <<3199, 3200, "L", 0, "U", FALSE>>,
    <<3201, 3201, "NSM", 0, "T", TRUE>>, <<3202, 3203, "L", 0, "U", TRUE>>,
    <<3204, 3212, "L", 0, "U", FALSE>>, <<3214, 3216, "L", 0, "U", FALSE>>,
    <<3218, 3240, "L", 0, "U", FALSE>>, <<3242, 3251, "L", 0, "U", FALSE>>,
    <<3253, 3257, "L", 0, "U", FALSE>>, <<3260, 3260, "NSM", 7, "T", TRUE>>,
    <<3261, 3261, "L", 0, "U", FALSE>>, <<3262, 3262, "L", 0, "U", TRUE>>,
    <<3263, 3263, "L", 0, "T", TRUE>>, <<3264, 3268, "L", 0, "U", TRUE>>,
    <<3270, 3270, "L", 0, "T", TRUE>>, <<3271, 3272, "L", 0, "U", TRUE>>,
    <<3274, 3275, "L", 0, "U", TRUE>>, <<3276, 3276, "NSM", 0, "T", TRUE>>,
    <<3277, 3277, "NSM", 9, "T", TRUE>>, <<3285, 3286, "L", 0, "U", TRUE>>,
    <<3293, 3294, "L", 0, "U", FALSE>>, <<3296, 3297, "L", 0, "U", FALSE>>,
    <<3298, 3299, "NSM", 0, "T", TRUE>>, <<3302, 3311, "L", 0, "U", FALSE>>,
    <<3313, 3314, "L", 0, "U", FALSE>>, <<3315, 3315, "L", 0, "U", TRUE>>,
    <<3328, 3329, "NSM", 0, "T", TRUE>>, <<3330, 3331, "L", 0, "U", TRUE>>,
    <<3332, 3340, "L", 0, "U", FALSE>>, <<3342, 3344, "L", 0, "U", FALSE>>,
    <<3346, 3386, "L", 0, "U", FALSE>>, <<3387, 3388, "NSM", 9, "T", TRUE>>,
    <<3389, 3389, "L", 0, "U", FALSE>>, <<3390, 3392, "L", 0, "U", TRUE>>,
    <<3393, 3396, "NSM", 0, "T", TRUE>>, <<3398, 3400, "L", 0, "U", TRUE>>,
    <<3402, 3404, "L", 0, "U", TRUE>>, <<3405, 3405, "NSM", 9, "T", TRUE>>,
    <<3406, 3407, "L", 0, "U", FALSE>>, <<3412, 3414, "L", 0, "U", FALSE>>,
    <<3415, 3415, "L", 0, "U", TRUE>>, <<3416, 3425, "L", 0, "U", FALSE>>,
    <<3426, 3427, "NSM", 0, "T", TRUE>>, <<3430, 3455, "L", 0, "U", FALSE>>,
    <<3457, 3457, "NSM", 0, "T", TRUE>>, <<3458, 3459, "L", 0, "U", TRUE>>,
    <<3461, 3478, "L", 0, "U", FALSE>>, <<3482, 3505, "L", 0, "U", FALSE>>,
    <<3507, 3515, "L", 0, "U", FALSE>>, <<3517, 3517, "L", 0, "U", FALSE>>,
    <<3520, 3526, "L", 0, "U", FALSE>>, <<3530, 3530, "NSM", 9, "T", TRUE>>,
    <<3535, 3537, "L", 0, "U", TRUE>>, <<3538, 3540, "NSM", 0, "T", TRUE>>,
    <<3542, 3542, "NSM", 0, "T", TRUE>>, <<3544, 3551, "L", 0, "U", TRUE>>,
    <<3558, 3567, "L", 0, "U", FALSE>>, <<3570, 3571, "L", 0, "U", TRUE>>,
    <<3572, 3572, "L", 0, "U", FALSE>>, <<3585, 3632, "L", 0, "U", FALSE>>,
    <<3633, 3633, "NSM", 0, "T", TRUE>>, <<3634, 3634, "L", 0, "U", FALSE>>,
    <<3636, 3639, "NSM", 0, "T", TRUE>>, <<3640, 3641, "NSM", 103, "T", TRUE>>,
    <<3642, 3642, "NSM", 9, "T", TRUE>>, <<3647, 3647, "ON", 0, "U", FALSE>>,
    <<3648, 3654, "L", 0, "U", FALSE>>, <<3655, 3655, "NSM", 0, "T", TRUE>>,
    <<3656, 3659, "NSM", 107, "T", TRUE>>, <<3660, 3662, "NSM", 0, "T", TRUE>>,
    <<3663, 3675, "L", 0, "U", FALSE>>, <<3713, 3714, "L", 0, "U", FALSE>>,
    <<3716, 3716, "L", 0, "U", FALSE>>, <<3718, 3722, "L", 0, "U", FALSE>>,
    <<3724, 3747, "L", 0, "U", FALSE>>, <<3749, 3749, "L", 0, "U", FALSE>>,
    <<3751, 3760, "L", 0, "U", FALSE>>, <<3761, 3761, "NSM", 0, "T", TRUE>>,
    <<3762, 3762, "L", 0, "U", FALSE>>, <<3764, 3767, "NSM", 0, "T", TRUE>>,
    <<3768, 3769, "NSM", 118, "T", TRUE>>, <<3770, 3770, "NSM", 9, "T", TRUE>>,
    <<3771, 3772, "NSM", 0, "T", TRUE>>, <<3773, 3773, "L", 0, "U", FALSE>>,
    <<3776, 3780, "L", 0, "U", FALSE>>, <<3782, 3782, "L", 0, "U", FALSE>>,
    <<3784, 3787, "NSM", 122, "T", TRUE>>, <<3788, 3790, "NSM", 0, "T", TRUE>>,
    <<3792, 3801, "L", 0, "U", FALSE>>, <<3806, 3807, "L", 0, "U", FALSE>>,
    <<3840, 3851, "L", 0, "U", FALSE>>, <<3853, 3863, "L", 0, "U", FALSE>>,
    <<3864, 3865, "NSM", 220, "T", TRUE>>, <<3866, 3892, "L", 0, "U", FALSE>>,
    <<3893, 3893, "NSM", 220, "T", TRUE>>, <<3894, 3894, "L", 0, "U", FALSE>>,
    <<3895, 3895, "NSM", 220, "T", TRUE>>, <<3896, 3896, "L", 0, "U", FALSE>>,
    <<3897, 3897, "NSM", 216, "T", TRUE>>, <<3898, 3901, "ON", 0, "U", FALSE>>,
    <<3902, 3903, "L", 0, "U", TRUE>>, <<3904, 3906, "L", 0, "U", FALSE>>,
    <<3908, 3911, "L", 0, "U", FALSE>>, <<3913, 3916, "L", 0, "U", FALSE>>,
    <<3918, 3921, "L", 0, "U", FALSE>>, <<3923, 3926, "L", 0, "U", FALSE>>,
    <<3928, 3931, "L", 0, "U", FALSE>>, <<3933, 3944, "L", 0, "U", FALSE>>,
    <<3946, 3948, "L", 0, "U", FALSE>>, <<3953, 3953, "NSM", 129, "T", TRUE>>,
    <<3954, 3954, "NSM", 130, "T", TRUE>>, <<3956, 3956, "NSM", 132, "T", TRUE>>,
    <<3962, 3965, "NSM", 130, "T", TRUE>>, <<3966, 3966, "NSM", 0, "T", TRUE>>,
    <<3967, 3967, "L", 0, "U", TRUE>>, <<3968, 3968, "NSM", 130, "T", TRUE>>,
    <<3970, 3971, "NSM", 230, "T", TRUE>>, <<3972, 3972, "NSM", 9, "T", TRUE>>,
    <<3973, 3973, "L", 0, "U", FALSE>>, <<3974, 3975, "NSM", 230, "T", TRUE>>,
    <<3976, 3980, "L", 0, "U", FALSE>>, <<3981, 3986, "NSM", 0, "T", TRUE>>,
    <<3988, 3991, "NSM", 0, "T", TRUE>>, <<3993, 3996, "NSM", 0, "T", TRUE>>,
    <<3998, 4001, "NSM", 0, "T", TRUE>>, <<4003, 4006, "NSM", 0, "T", TRUE>>,
    <<4008, 4011, "NSM", 0, "T", TRUE>>, <<4013, 4024, "NSM", 0, "T", TRUE>>,
    <<4026, 4028, "NSM", 0, "T", TRUE>>, <<4030, 4037, "L", 0, "U", FALSE>>,
    <<4038, 4038, "NSM", 220, "T", TRUE>>, <<4039, 4044, "L", 0, "U", FALSE>>,
    <<4046, 4058, "L", 0, "U", FALSE>>, <<4096, 4138, "L", 0, "U", FALSE>>,
    <<4139, 4140, "L", 0, "U", TRUE>>, <<4141, 4144, "NSM", 0, "T", TRUE>>,
    <<4145, 4145, "L", 0, "U", TRUE>>, <<4146, 4150, "NSM", 0, "T", TRUE>>,
    <<4151, 4151, "NSM", 7, "T", TRUE>>, <<4152, 4152, "L", 0, "U", TRUE>>,
    <<4153, 4154, "NSM", 9, "T", TRUE>>, <<4155, 4156, "L", 0, "U", TRUE>>,
    <<4157, 4158, "NSM", 0, "T", TRUE>>, <<4159, 4181, "L", 0, "U", FALSE>>,
    <<4182, 4183, "L", 0, "U", TRUE>>, <<4184, 4185, "NSM", 0, "T", TRUE>>,
    <<4186, 4189, "L", 0, "U", FALSE>>, <<4190, 4192, "NSM", 0, "T", TRUE>>,
    <<4193, 4193, "L", 0, "U", FALSE>>, <<4194, 4196, "L", 0, "U", TRUE>>,
    <<4197, 4198, "L", 0, "U", FALSE>>, <<4199, 4205, "L", 0, "U", TRUE>>,
    <<4206, 4208, "L", 0, "U", FALSE>>, <<4209, 4212, "NSM", 0, "T", TRUE>>,
    <<4213, 4225, "L", 0, "U", FALSE>>, <<4226, 4226, "NSM", 0, "T", TRUE>>,
    <<4227, 4228, "L", 0, "U", TRUE>>, <<4229, 4230, "NSM", 0, "T", TRUE>>,
    <<4231, 4236, "L", 0, "U", TRUE>>, <<4237, 4237, "NSM", 220, "T", TRUE>>,
    <<4238, 4238, "L", 0, "U", FALSE>>, <<4239, 4239, "L", 0, "U", TRUE>>,
    <<4240, 4249, "L", 0, "U", FALSE>>, <<4250, 4252, "L", 0, "U", TRUE>>,
    <<4253, 4253, "NSM", 0, "T", TRUE>>, <<4254, 4255, "L", 0, "U", FALSE>>,
    <<4304, 4347, "L", 0, "U", FALSE>>, <<4349, 4446, "L", 0, "U", FALSE>>,
    <<4449, 4680, "L", 0, "U", FALSE>>, <<4682, 4685, "L", 0, "U", FALSE>>,
    <<4688, 4694, "L", 0, "U", FALSE>>, <<4696, 4696, "L", 0, "U", FALSE>>,
    <<4698, 4701, "L", 0, "U", FALSE>>, <<4704, 4744, "L", 0, "U", FALSE>>,
    <<4746, 4749, "L", 0, "U", FALSE>>, <<4752, 4784, "L", 0, "U", FALSE>>,
    <<4786, 4789, "L", 0, "U", FALSE>>, <<4792, 4798, "L", 0, "U", FALSE>>,
    <<4800, 4800, "L", 0, "U", FALSE>>, <<4802, 4805, "L", 0, "U", FALSE>>,
    <<4808, 4822, "L", 0, "U", FALSE>>, <<4824, 4880, "L", 0, "U", FALSE>>,
    <<4882, 4885, "L", 0, "U", FALSE>>, <<4888, 4954, "L", 0, "U", FALSE>>,
    <<4957, 4959, "NSM", 230, "T", TRUE>>, <<4960, 4988, "L", 0, "U", FALSE>>,
    <<4992, 5007, "L", 0, "U", FALSE>>, <<5008, 5017, "ON", 0, "U", FALSE>>,
    <<5024, 5109, "L", 0, "U", FALSE>>, <<5120, 5120, "ON", 0, "U", FALSE>>,
    <<5121, 5759, "L", 0, "U", FALSE>>, <<5761, 5786, "L", 0, "U", FALSE>>,
    <<5787, 5788, "ON", 0, "U", FALSE>>, <<5792, 5880, "L", 0, "U", FALSE>>,
    <<5888, 5905, "L", 0, "U", FALSE>>, <<5906, 5907, "NSM", 0, "T", TRUE>>,
    <<5908, 5908, "NSM", 9, "T", TRUE>>, <<5909, 5909, "L", 9, "U", TRUE>>,
    <<5919, 5937, "L", 0, "U", FALSE>>, <<5938, 5939, "NSM", 0, "T", TRUE>>,
    <<5940, 5940, "L", 9, "U", TRUE>>, <<5941, 5942, "L", 0, "U", FALSE>>,
    <<5952, 5969, "L", 0, "U", FALSE>>, <<5970, 5971, "NSM", 0, "T", TRUE>>,
    <<5984, 5996, "L", 0, "U", FALSE>>, <<5998, 6000, "L", 0, "U", FALSE>>,
    <<6002, 6003, "NSM", 0, "T", TRUE>>, <<6016, 6067, "L", 0, "U", FALSE>>,
    <<6070, 6070, "L", 0, "U", TRUE>>, <<6071, 6077, "NSM", 0, "T", TRUE>>,
    <<6078, 6085, "L", 0, "U", TRUE>>, <<6086, 6086, "NSM", 0, "T", TRUE>>,
    <<6087, 6088, "L", 0, "U", TRUE>>, <<6089, 6097, "NSM", 0, "T", TRUE>>,
    <<6098, 6098, "NSM", 9, "T", TRUE>>, <<6099, 6099, "NSM", 0, "T", TRUE>>,
    <<6100, 6106, "L", 0, "U", FALSE>>, <<6107, 6107, "ON", 0, "U", FALSE>>,
    <<6108, 6108, "L", 0, "U", FALSE>>, <<6109, 6109, "NSM", 230, "T", TRUE>>,
    <<6112, 6121, "L", 0, "U", FALSE>>, <<6128, 6137, "ON", 0, "U", FALSE>>,
    <<6144, 6149, "ON", 0, "U", FALSE>>, <<6151, 6151, "ON", 0, "D", FALSE>>,
    <<6152, 6154, "ON", 0, "U", FALSE>>, <<6160, 6169, "L", 0, "U", FALSE>>,
    <<6176, 6264, "L", 0, "D", FALSE>>, <<6272, 6276, "L", 0, "U", FALSE>>,
    <<6277, 6278, "NSM", 0, "T", TRUE>>, <<6279, 6312, "L", 0, "D", FALSE>>,
    <<6313, 6313, "NSM", 228, "T", TRUE>>, <<6314, 6314, "L", 0, "D", FALSE>>,
    <<6320, 6389, "L", 0, "U", FALSE>>, <<6400, 6430, "L", 0, "U", FALSE>>,
    <<6432, 6434, "NSM", 0, "T", TRUE>>, <<6435, 6438, "L", 0, "U", TRUE>>,
    <<6439, 6440, "NSM", 0, "T", TRUE>>, <<6441, 6443, "L", 0, "U", TRUE>>,
    <<6448, 6449, "L", 0, "U", TRUE>>, <<6450, 6450, "NSM", 0, "T", TRUE>>,
    <<6451, 6456, "L", 0, "U", TRUE>>, <<6457, 6457, "NSM", 222, "T", TRUE>>,
    <<6458, 6458, "NSM", 230, "T", TRUE>>, <<6459, 6459, "NSM", 220, "T", TRUE>>,
    <<6464, 6464, "ON", 0, "U", FALSE>>, <<6468, 6469, "ON", 0, "U", FALSE>>,
    <<6470, 6509, "L", 0, "U", FALSE>>, <<6512, 6516, "L", 0, "U", FALSE>>,
    <<6528, 6571, "L", 0, "U", FALSE>>, <<6576, 6601, "L", 0, "U", FALSE>>,
    <<6608, 6618, "L", 0, "U", FALSE>>, <<6622, 6655, "ON", 0, "U", FALSE>>,
    <<6656, 6678, "L", 0, "U", FALSE>>, <<6679, 6679, "NSM", 230, "T", TRUE>>,
    <<6680, 6680, "NSM", 220, "T", TRUE>>, <<6681, 6682, "L", 0, "U", TRUE>>,
    <<6683, 6683, "NSM", 0, "T", TRUE>>, <<6686, 6740, "L", 0, "U", FALSE>>,
    <<6741, 6741, "L", 0, "U", TRUE>>, <<6742, 6742, "NSM", 0, "T", TRUE>>,
    <<6743, 6743, "L", 0, "U", TRUE>>, <<6744, 6750, "NSM", 0, "T", TRUE>>,
    <<6752, 6752, "NSM", 9, "T", TRUE>>, <<6753, 6753, "L", 0, "U", TRUE>>,
    <<6754, 6754, "NSM", 0, "T", TRUE>>, <<6755, 6756, "L", 0, "U", TRUE>>,
    <<6757, 6764, "NSM", 0, "T", TRUE>>, <<6765, 6770, "L", 0, "U", TRUE>>,
    <<6771, 6772, "NSM", 0, "T", TRUE>>, <<6773, 6780, "NSM", 230, "T", TRUE>>,
    <<6783, 6783, "NSM", 220, "T", TRUE>>, <<6784, 6793, "L", 0, "U", FALSE>>,
    <<6800, 6809, "L", 0, "U", FALSE>>, <<6816, 6829, "L", 0, "U", FALSE>>,
    <<6832, 6836, "NSM", 230, "T", TRUE>>, <<6837, 6842, "NSM", 220, "T", TRUE>>,
    <<6843, 6844, "NSM", 230, "T", TRUE>>, <<6845, 6845, "NSM", 220, "T", TRUE>>,
    <<6846, 6846, "NSM", 0, "T", TRUE>>, <<6847, 6848, "NSM", 220, "T", TRUE>>,
    <<6849, 6850, "NSM", 230, "T", TRUE>>, <<6851, 6852, "NSM", 220, "T", TRUE>>,
    <<6853, 6857, "NSM", 230, "T", TRUE>>, <<6858, 6858, "NSM", 220, "T", TRUE>>,
    <<6859, 6862, "NSM", 230, "T", TRUE>>, <<6912, 6915, "NSM", 0, "T", TRUE>>,
    <<6916, 6916, "L", 0, "U", TRUE>>, <<6917, 6963, "L", 0, "U", FALSE>>,
    <<6964, 6964, "NSM", 7, "T", TRUE>>, <<6965, 6965, "L", 0, "U", TRUE>>,
    <<6966, 6970, "NSM", 0, "T", TRUE>>, <<6971, 6971, "L", 0, "U", TRUE>>,
    <<6972, 6972, "NSM", 0, "T", TRUE>>, <<6973, 6977, "L", 0, "U", TRUE>>,
    <<6978, 6978, "NSM", 0, "T", TRUE>>, <<6979, 6979, "L", 0, "U", TRUE>>,
    <<6980, 6980, "L", 9, "U", TRUE>>, <<6981, 6988, "L", 0, "U", FALSE>>,
    <<6992, 7018, "L", 0, "U", FALSE>>, <<7019, 7019, "NSM", 230, "T", TRUE>>,
    <<7020, 7020, "NSM", 220, "T", TRUE>>, <<7021, 7027, "NSM", 230, "T", TRUE>>,
    <<7028, 7038, "L", 0, "U", FALSE>>, <<7040, 7041, "NSM", 0, "T", TRUE>>,
    <<7042, 7042, "L", 0, "U", TRUE>>, <<7043, 7072, "L", 0, "U", FALSE>>,
    <<7073, 7073, "L", 0, "U", TRUE>>, <<7074, 7077, "NSM", 0, "T", TRUE>>,
    <<7078, 7079, "L", 0, "U", TRUE>>, <<7080, 7081, "NSM", 0, "T", TRUE>>,
    <<7082, 7082, "L", 9, "U", TRUE>>, <<7083, 7083, "NSM", 9, "T", TRUE>>,
    <<7084, 7085, "NSM", 0, "T", TRUE>>, <<7086, 7141, "L", 0, "U", FALSE>>,
    <<7142, 7142, "NSM", 7, "T", TRUE>>, <<7143, 7143, "L", 0, "U", TRUE>>,
    <<7144, 7145, "NSM", 0, "T", TRUE>>, <<7146, 7148, "L", 0, "U", TRUE>>,
    <<7149, 7149, "NSM", 0, "T", TRUE>>, <<7150, 7150, "L", 0, "U", TRUE>>,
    <<7151, 7153, "NSM", 0, "T", TRUE>>, <<7154, 7155, "L", 9, "U", TRUE>>,
    <<7164, 7203, "L", 0, "U", FALSE>>, <<7204, 7211, "L", 0, "U", TRUE>>,
    <<7212, 7219, "NSM", 0, "T", TRUE>>, <<7220, 7221, "L", 0, "U", TRUE>>,
    <<7222, 7222, "NSM", 0, "T", TRUE>>, <<7223, 7223, "NSM", 7, "T", TRUE>>,
    <<7227, 7241, "L", 0, "U", FALSE>>, <<7245, 7295, "L", 0, "U", FALSE>>,
    <<7360, 7367, "L", 0, "U", FALSE>>, <<7376, 7378, "NSM", 230, "T", TRUE>>,
    <<7379, 7379, "L", 0, "U", FALSE>>, <<7380, 7380, "NSM", 1, "T", TRUE>>,
    <<7381, 7385, "NSM", 220, "T", TRUE>>, <<7386, 7387, "NSM", 230, "T", TRUE>>,
    <<7388, 7391, "NSM", 220, "T", TRUE>>, <<7392, 7392, "NSM", 230, "T", TRUE>>,
    <<7393, 7393, "L", 0, "U", TRUE>>, <<7394, 7400, "NSM", 1, "T", TRUE>>,
    <<7401, 7404, "L", 0, "U", FALSE>>, <<7405, 7405, "NSM", 220, "T", TRUE>>,
    <<7406, 7411, "L", 0, "U", FALSE>>, <<7412, 7412, "NSM", 230, "T", TRUE>>,
    <<7413, 7414, "L", 0, "U", FALSE>>, <<7415, 7415, "L", 0, "U", TRUE>>,
    <<7416, 7417, "NSM", 230, "T", TRUE>>, <<7418, 7418, "L", 0, "U", FALSE>>,
    <<7424, 7467, "L", 0, "U", FALSE>>, <<7471, 7471, "L", 0, "U", FALSE>>,
    <<7483, 7483, "L", 0, "U", FALSE>>, <<7502, 7502, "L", 0, "U", FALSE>>,
    <<7531, 7543, "L", 0, "U", FALSE>>, <<7545, 7578, "L", 0, "U", FALSE>>,
    <<7616, 7617, "NSM", 230, "T", TRUE>>, <<7618, 7618, "NSM", 220, "T", TRUE>>,
    <<7619, 7625, "NSM", 230, "T", TRUE>>, <<7626, 7626, "NSM", 220, "T", TRUE>>,
    <<7627, 7628, "NSM", 230, "T", TRUE>>, <<7629, 7629, "NSM", 234, "T", TRUE>>,
    <<7630, 7630, "NSM", 214, "T", TRUE>>, <<7631, 7631, "NSM", 220, "T", TRUE>>,
    <<7632, 7632, "NSM", 202, "T", TRUE>>, <<7633, 7669, "NSM", 230, "T", TRUE>>,
    <<7670, 7670, "NSM", 232, "T", TRUE>>, <<7671, 7672, "NSM", 228, "T", TRUE>>,
    <<7673, 7673, "NSM", 220, "T", TRUE>>, <<7674, 7674, "NSM", 218, "T", TRUE>>,
    <<7675, 7675, "NSM", 230, "T", TRUE>>, <<7676, 7676, "NSM", 233, "T", TRUE>>,
    <<7677, 7677, "NSM", 220, "T", TRUE>>, <<7678, 7678, "NSM", 230, "T", TRUE>>,
    <<7679, 7679, "NSM", 220, "T", TRUE>>, <<7681, 7681, "L", 0, "U", FALSE>>,
    <<7683, 7683, "L", 0, "U", FALSE>>, <<7685, 7685, "L", 0, "U", FALSE>>,
    <<7687, 7687, "L", 0, "U", FALSE>>, <<7689, 7689, "L", 0, "U", FALSE>>,
    <<7691, 7691, "L", 0, "U", FALSE>>, <<7693, 7693, "L", 0, "U", FALSE>>,
    <<7695, 7695, "L", 0, "U", FALSE>>, <<7697, 7697, "L", 0, "U", FALSE>>,
    <<7699, 7699, "L", 0, "U", FALSE>>, <<7701, 7701, "L", 0, "U", FALSE>>,
    <<7703, 7703, "L", 0, "U", FALSE>>, <<7705, 7705, "L", 0, "U", FALSE>>,
    <<7707, 7707, "L", 0, "U", FALSE>>, <<7709, 7709, "L", 0, "U", FALSE>>,
    <<7711, 7711, "L", 0, "U", FALSE>>, <<7713, 7713, "L", 0, "U", FALSE>>,
    <<7715, 7715, "L", 0, "U", FALSE>>, <<7717, 7717, "L", 0, "U", FALSE>>,
    <<7719, 7719, "L", 0, "U", FALSE>>, <<7721, 7721, "L", 0, "U", FALSE>>,
    <<7723, 7723, "L", 0, "U", FALSE>>, <<7725, 7725, "L", 0, "U", FALSE>>,
    <<7727, 7727, "L", 0, "U", FALSE>>, <<7729, 7729, "L", 0, "U", FALSE>>,
    <<7731, 7731, "L", 0, "U", FALSE>>, <<7733, 7733, "L", 0, "U", FALSE>>,
    <<7735, 7735, "L", 0, "U", FALSE>>, <<7737, 7737, "L", 0, "U", FALSE>>,
    <<7739, 7739, "L", 0, "U", FALSE>>, <<7741, 7741, "L", 0, "U", FALSE>>,
    <<7743, 7743, "L", 0, "U", FALSE>>, <<7745, 7745, "L", 0, "U", FALSE>>,
    <<7747, 7747, "L", 0, "U", FALSE>>, <<7749, 7749, "L", 0, "U", FALSE>>,
    <<7751, 7751, "L", 0, "U", FALSE>>, <<7753, 7753, "L", 0, "U", FALSE>>,
    <<7755, 7755, "L", 0, "U", FALSE>>, <<7757, 7757, "L", 0, "U", FALSE>>,
    <<7759, 7759, "L", 0, "U", FALSE>>, <<7761, 7761, "L", 0, "U", FALSE>>,
    <<7763, 7763, "L", 0, "U", FALSE>>, <<7765, 7765, "L", 0, "U", FALSE>>,
    <<7767, 7767, "L", 0, "U", FALSE>>, <<7769, 7769, "L", 0, "U", FALSE>>,
    <<7771, 7771, "L", 0, "U", FALSE>>, <<7773, 7773, "L", 0, "U", FALSE>>,
    <<7775, 7775, "L", 0, "U", FALSE>>, <<7777, 7777, "L", 0, "U", FALSE>>,
    <<7779, 7779, "L", 0, "U", FALSE>>, <<7781, 7781, "L", 0, "U", FALSE>>,
    <<7783, 7783, "L", 0, "U", FALSE>>, <<7785, 7785, "L", 0, "U", FALSE>>,
    <<7787, 7787, "L", 0, "U", FALSE>>, <<7789, 7789, "L", 0, "U", FALSE>>,
    <<7791, 7791, "L", 0, "U", FALSE>>, <<7793, 7793, "L", 0, "U", FALSE>>,
    <<7795, 7795, "L", 0, "U", FALSE>>, <<7797, 7797, "L", 0, "U", FALSE>>,
    <<7799, 7799, "L", 0, "U", FALSE>>, <<7801, 7801, "L", 0, "U", FALSE>>,
    <<7803, 7803, "L", 0, "U", FALSE>>, <<7805, 7805, "L", 0, "U", FALSE>>,
    <<7807, 7807, "L", 0, "U", FALSE>>, <<7809, 7809, "L", 0, "U", FALSE>>,
    <<7811, 7811, "L", 0, "U", FALSE>>, <<7813, 7813, "L", 0, "U", FALSE>>,
    <<7815, 7815, "L", 0, "U", FALSE>>, <<7817, 7817, "L", 0, "U", FALSE>>,
    <<7819, 7819, "L", 0, "U", FALSE>>, <<7821, 7821, "L", 0, "U", FALSE>>,
    <<7823, 7823, "L", 0, "U", FALSE>>, <<7825, 7825, "L", 0, "U", FALSE>>,
    <<7827, 7827, "L", 0, "U", FALSE>>, <<7829, 7833, "L", 0, "U", FALSE>>,
    <<7836, 7837, "L", 0, "U", FALSE>>, <<7839, 7839, "L", 0, "U", FALSE>>,
    <<7841, 7841, "L", 0, "U", FALSE>>, <<7843, 7843, "L", 0, "U", FALSE>>,
    <<7845, 7845, "L", 0, "U", FALSE>>, <<7847, 7847, "L", 0, "U", FALSE>>,
    <<7849, 7849, "L", 0, "U", FALSE>>, <<7851, 7851, "L", 0, "U", FALSE>>,
    <<7853, 7853, "L", 0, "U", FALSE>>, <<7855, 7855, "L", 0, "U", FALSE>>,
    <<7857, 7857, "L", 0, "U", FALSE>>, <<7859, 7859, "L", 0, "U", FALSE>>,
    <<7861, 7861, "L", 0, "U", FALSE>>, <<7863, 7863, "L", 0, "U", FALSE>>,
    <<7865, 7865, "L", 0, "U", FALSE>>, <<7867, 7867, "L", 0, "U", FALSE>>,
    <<7869, 7869, "L", 0, "U", FALSE>>, <<7871, 7871, "L", 0, "U", FALSE>>,
    <<7873, 7873, "L", 0, "U", FALSE>>, <<7875, 7875, "L", 0, "U", FALSE>>,
    <<7877, 7877, "L", 0, "U", FALSE>>, <<7879, 7879, "L", 0, "U", FALSE>>,
    <<7881, 7881, "L", 0, "U", FALSE>>, <<7883, 7883, "L", 0, "U", FALSE>>,
    <<7885, 7885, "L", 0, "U", FALSE>>, <<7887, 7887, "L", 0, "U", FALSE>>,
    <<7889, 7889, "L", 0, "U", FALSE>>, <<7891, 7891, "L", 0, "U", FALSE>>,
    <<7893, 7893, "L", 0, "U", FALSE>>, <<7895, 7895, "L", 0, "U", FALSE>>,
    <<7897, 7897, "L", 0, "U", FALSE>>, <<7899, 7899, "L", 0, "U", FALSE>>,
    <<7901, 7901, "L", 0, "U", FALSE>>, <<7903, 7903, "L", 0, "U", FALSE>>,
    <<7905, 7905, "L", 0, "U", FALSE>>, <<7907, 7907, "L", 0, "U", FALSE>>,
    <<7909, 7909, "L", 0, "U", FALSE>>, <<7911, 7911, "L", 0, "U", FALSE>>,
    <<7913, 7913, "L", 0, "U", FALSE>>, <<7915, 7915, "L", 0, "U", FALSE>>,
    <<7917, 7917, "L", 0, "U", FALSE>>, <<7919, 7919, "L", 0, "U", FALSE>>,
    <<7921, 7921, "L", 0, "U", FALSE>>, <<7923, 7923, "L", 0, "U", FALSE>>,
    <<7925, 7925, "L", 0, "U", FALSE>>, <<7927, 7927, "L", 0, "U", FALSE>>,
    <<7929, 7929, "L", 0, "U", FALSE>>, <<7931, 7931, "L", 0, "U", FALSE>>,
    <<7933, 7933, "L", 0, "U", FALSE>>, <<7935, 7943, "L", 0, "U", FALSE>>,
    <<7952, 7957, "L", 0, "U", FALSE>>, <<7968, 7975, "L", 0, "U", FALSE>>,
    <<7984, 7991, "L", 0, "U", FALSE>>, <<8000, 8005, "L", 0, "U", FALSE>>,
    <<8016, 8023, "L", 0, "U", FALSE>>, <<8032, 8039, "L", 0, "U", FALSE>>,
    <<8048, 8048, "L", 0, "U", FALSE>>, <<8050, 8050, "L", 0, "U", FALSE>>,
    <<8052, 8052, "L", 0, "U", FALSE>>, <<8054, 8054, "L", 0, "U", FALSE>>,
    <<8056, 8056, "L", 0, "U", FALSE>>, <<8058, 8058, "L", 0, "U", FALSE>>,
    <<8060, 8060, "L", 0, "U", FALSE>>, <<8112, 8113, "L", 0, "U", FALSE>>,
    <<8118, 8118, "L", 0, "U", FALSE>>, <<8134, 8134, "L", 0, "U", FALSE>>,
    <<8144, 8146, "L", 0, "U", FALSE>>, <<8150, 8151, "L", 0, "U", FALSE>>,
    <<8160, 8162, "L", 0, "U", FALSE>>, <<8164, 8167, "L", 0, "U", FALSE>>,
    <<8182, 8182, "L", 0, "U", FALSE>>, <<8204, 8205, "ON", 0, "U", FALSE>>,
    <<8208, 8208, "ON", 0, "U", FALSE>>, <<8210, 8214, "ON", 0, "U", FALSE>>,
    <<8216, 8227, "ON", 0, "U", FALSE>>, <<8231, 8231, "ON", 0, "U", FALSE>>,
    <<8240, 8242, "ON", 0, "U", FALSE>>, <<8245, 8245, "ON", 0, "U", FALSE>>,
    <<8248, 8251, "ON", 0, "U", FALSE>>, <<8253, 8253, "ON", 0, "U", FALSE>>,
    <<8255, 8262, "ON", 0, "U", FALSE>>, <<8266, 8278, "ON", 0, "U", FALSE>>,
    <<8280, 8286, "ON", 0, "U", FALSE>>, <<8352, 8359, "ON", 0, "U", FALSE>>,
    <<8361, 8384, "ON", 0, "U", FALSE>>, <<8400, 8401, "NSM", 230, "T", TRUE>>,
    <<8402, 8403, "NSM", 1, "T", TRUE>>, <<8404, 8407, "NSM", 230, "T", TRUE>>,
    <<8408, 8410, "NSM", 1, "T", TRUE>>, <<8411, 8412, "NSM", 230, "T", TRUE>>,
    <<8413, 8416, "NSM", 0, "T", TRUE>>, <<8417, 8417, "NSM", 230, "T", TRUE>>,
    <<8418, 8420, "NSM", 0, "T", TRUE>>, <<8421, 8422, "NSM", 1, "T", TRUE>>,
    <<8423, 8423, "NSM", 230, "T", TRUE>>, <<8424, 8424, "NSM", 220, "T", TRUE>>,
    <<8425, 8425, "NSM", 230, "T", TRUE>>, <<8426, 8427, "NSM", 1, "T", TRUE>>,
    <<8428, 8431, "NSM", 220, "T", TRUE>>, <<8432, 8432, "NSM", 230, "T", TRUE>>,
    <<8452, 8452, "ON", 0, "U", FALSE>>, <<8456, 8456, "ON", 0, "U", FALSE>>,
    <<8468, 8468, "ON", 0, "U", FALSE>>, <<8471, 8472, "ON", 0, "U", FALSE>>,
    <<8478, 8479, "ON", 0, "U", FALSE>>, <<8483, 8483, "ON", 0, "U", FALSE>>,
    <<8485, 8485, "ON", 0, "U", FALSE>>, <<8487, 8487, "ON", 0, "U", FALSE>>,
    <<8489, 8489, "ON", 0, "U", FALSE>>, <<8494, 8494, "ON", 0, "U", FALSE>>,
    <<8506, 8506, "ON", 0, "U", FALSE>>, <<8513, 8516, "ON", 0, "U", FALSE>>,
    <<8522, 8525, "ON", 0, "U", FALSE>>, <<8526, 8527, "L", 0, "U", FALSE>>,
    <<8576, 8578, "L", 0, "U", FALSE>>, <<8580, 8584, "L", 0, "U", FALSE>>,
    <<8586, 8587, "ON", 0, "U", FALSE>>, <<8592, 8747, "ON", 0, "U", FALSE>>,
    <<8750, 8750, "ON", 0, "U", FALSE>>, <<8753, 9000, "ON", 0, "U", FALSE>>,
    <<9003, 9013, "ON", 0, "U", FALSE>>, <<9014, 9082, "L", 0, "U", FALSE>>,
    <<9083, 9108, "ON", 0, "U", FALSE>>, <<9109, 9109, "L", 0, "U", FALSE>>,
    <<9110, 9254, "ON", 0, "U", FALSE>>, <<9280, 9290, "ON", 0, "U", FALSE>>,
    <<9451, 9899, "ON", 0, "U", FALSE>>, <<9900, 9900, "L", 0, "U", FALSE>>,
    <<9901, 10239, "ON", 0, "U", FALSE>>, <<10240, 10495, "L", 0, "U", FALSE>>,
    <<10496, 10763, "ON", 0, "U", FALSE>>, <<10765, 10867, "ON", 0, "U", FALSE>>,
    <<10871, 10971, "ON", 0, "U", FALSE>>, <<10973, 11123, "ON", 0, "U", FALSE>>,
    <<11126, 11157, "ON", 0, "U", FALSE>>, <<11159, 11263, "ON", 0, "U", FALSE>>,
    <<11312, 11359, "L", 0, "U", FALSE>>, <<11361, 11361, "L", 0, "U", FALSE>>,
    <<11365, 11366, "L", 0, "U", FALSE>>, <<11368, 11368, "L", 0, "U", FALSE>>,
    <<11370, 11370, "L", 0, "U", FALSE>>, <<11372, 11372, "L", 0, "U", FALSE>>,
    <<11377, 11377, "L", 0, "U", FALSE>>, <<11379, 11380, "L", 0, "U", FALSE>>,
    <<11382, 11387, "L", 0, "U", FALSE>>, <<11393, 11393, "L", 0, "U", FALSE>>,
    <<11395, 11395, "L", 0, "U", FALSE>>, <<11397, 11397, "L", 0, "U", FALSE>>,
    <<11399, 11399, "L", 0, "U", FALSE>>, <<11401, 11401, "L", 0, "U", FALSE>>,
    <<11403, 11403, "L", 0, "U", FALSE>>, <<11405, 11405, "L", 0, "U", FALSE>>,
    <<11407, 11407, "L", 0, "U", FALSE>>, <<11409, 11409, "L", 0, "U", FALSE>>,
    <<11411, 11411, "L", 0, "U", FALSE>>, <<11413, 11413, "L", 0, "U", FALSE>>,
    <<11415, 11415, "L", 0, "U", FALSE>>, <<11417, 11417, "L", 0, "U", FALSE>>,
    <<11419, 11419, "L", 0, "U", FALSE>>, <<11421, 11421, "L", 0, "U", FALSE>>,
    <<11423, 11423, "L", 0, "U", FALSE>>, <<11425, 11425, "L", 0, "U", FALSE>>,
    <<11427, 11427, "L", 0, "U", FALSE>>, <<11429, 11429, "L", 0, "U", FALSE>>,
    <<11431, 11431, "L", 0, "U", FALSE>>, <<11433, 11433, "L", 0, "U", FALSE>>,
    <<11435, 11435, "L", 0, "U", FALSE>>, <<11437, 11437, "L", 0, "U", FALSE>>,
    <<11439, 11439, "L", 0, "U", FALSE>>, <<11441, 11441, "L", 0, "U", FALSE>>,
    <<11443, 11443, "L", 0, "U", FALSE>>, <<11445, 11445, "L", 0, "U", FALSE>>,
    <<11447, 11447, "L", 0, "U", FALSE>>, <<11449, 11449, "L", 0, "U", FALSE>>,
    <<11451, 11451, "L", 0, "U", FALSE>>, <<11453, 11453, "L", 0, "U", FALSE>>,
    <<11455, 11455, "L", 0, "U", FALSE>>, <<11457, 11457, "L", 0, "U", FALSE>>,
    <<11459, 11459, "L", 0, "U", FALSE>>, <<11461, 11461, "L", 0, "U", FALSE>>,
    <<11463, 11463, "L", 0, "U", FALSE>>, <<11465, 11465, "L", 0, "U", FALSE>>,
    <<11467, 11467, "L", 0, "U", FALSE>>, <<11469, 11469, "L", 0, "U", FALSE>>,
    <<11471, 11471, "L", 0, "U", FALSE>>, <<11473, 11473, "L", 0, "U", FALSE>>,
    <<11475, 11475, "L", 0, "U", FALSE>>, <<11477, 11477, "L", 0, "U", FALSE>>,
    <<11479, 11479, "L", 0, "U", FALSE>>, <<11481, 11481, "L", 0, "U", FALSE>>,
    <<11483, 11483, "L", 0, "U", FALSE>>, <<11485, 11485, "L", 0, "U", FALSE>>,
    <<11487, 11487, "L", 0, "U", FALSE>>, <<11489, 11489, "L", 0, "U", FALSE>>,
    <<11491, 11492, "L", 0, "U", FALSE>>, <<11493, 11498, "ON", 0, "U", FALSE>>,
    <<11500, 11500, "L", 0, "U", FALSE>>, <<11502, 11502, "L", 0, "U", FALSE>>,
    <<11503, 11505, "NSM", 230, "T", TRUE>>, <<11507, 11507, "L", 0, "U", FALSE>>,
    <<11513, 11519, "ON", 0, "U", FALSE>>, <<11520, 11557, "L", 0, "U", FALSE>>,
    <<11559, 11559, "L", 0, "U", FALSE>>, <<11565, 11565, "L", 0, "U", FALSE>>,
    <<11568, 11623, "L", 0, "U", FALSE>>, <<11632, 11632, "L", 0, "U", FALSE>>,
    <<11647, 11647, "NSM", 9, "T", TRUE>>, <<11648, 11670, "L", 0, "U", FALSE>>,
    <<11680, 11686, "L", 0, "U", FALSE>>, <<11688, 11694, "L", 0, "U", FALSE>>,
    <<11696, 11702, "L", 0, "U", FALSE>>, <<11704, 11710, "L", 0, "U", FALSE>>,
    <<11712, 11718, "L", 0, "U", FALSE>>, <<11720, 11726, "L", 0, "U", FALSE>>,
    <<11728, 11734, "L", 0, "U", FALSE>>, <<11736, 11742, "L", 0, "U", FALSE>>,
    <<11744, 11775, "NSM", 230, "T", TRUE>>, <<11776, 11869, "ON", 0, "U", FALSE>>,
    <<11904, 11929, "ON", 0, "U", FALSE>>, <<11931, 11934, "ON", 0, "U", FALSE>>,
    <<11936, 12018, "ON", 0, "U", FALSE>>, <<12289, 12289, "ON", 0, "U", FALSE>>,
    <<12291, 12292, "ON", 0, "U", FALSE>>, <<12293, 12295, "L", 0, "U", FALSE>>,
    <<12296, 12320, "ON", 0, "U", FALSE>>, <<12321, 12329, "L", 0, "U", FALSE>>,
    <<12330, 12330, "NSM", 218, "T", TRUE>>, <<12331, 12331, "NSM", 228, "T", TRUE>>,
    <<12332, 12332, "NSM", 232, "T", TRUE>>, <<12333, 12333, "NSM", 222, "T", TRUE>>,
    <<12334, 12335, "L", 224, "U", TRUE>>, <<12336, 12336, "ON", 0, "U", FALSE>>,
    <<12337, 12341, "L", 0, "U", FALSE>>, <<12343, 12343, "ON", 0, "U", FALSE>>,
    <<12347, 12348, "L", 0, "U", FALSE>>, <<12349, 12351, "ON", 0, "U", FALSE>>,
    <<12353, 12438, "L", 0, "U", FALSE>>, <<12441, 12442, "NSM", 8, "T", TRUE>>,
    <<12445, 12446, "L", 0, "U", FALSE>>, <<12448, 12448, "ON", 0, "U", FALSE>>,
    <<12449, 12538, "L", 0, "U", FALSE>>, <<12539, 12539, "ON", 0, "U", FALSE>>,
    <<12540, 12542, "L", 0, "U", FALSE>>, <<12549, 12591, "L", 0, "U", FALSE>>,
    <<12688, 12689, "L", 0, "U", FALSE>>, <<12704, 12735, "L", 0, "U", FALSE>>,
    <<12736, 12771, "ON", 0, "U", FALSE>>, <<12784, 12799, "L", 0, "U", FALSE>>,
    <<12872, 12879, "L", 0, "U", FALSE>>, <<12927, 12927, "L", 0, "U", FALSE>>,
    <<13312, 19903, "L", 0, "U", FALSE>>, <<19904, 19967, "ON", 0, "U", FALSE>>,
    <<19968, 42124, "L", 0, "U", FALSE>>, <<42128, 42182, "ON", 0, "U", FALSE>>,
    <<42192, 42508, "L", 0, "U", FALSE>>, <<42509, 42511, "ON", 0, "U", FALSE>>,
    <<42512, 42539, "L", 0, "U", FALSE>>, <<42561, 42561, "L", 0, "U", FALSE>>,
    <<42563, 42563, "L", 0, "U", FALSE>>, <<42565, 42565, "L", 0, "U", FALSE>>,
    <<42567, 42567, "L", 0, "U", FALSE>>, <<42569, 42569, "L", 0, "U", FALSE>>,
    <<42571, 42571, "L", 0, "U", FALSE>>, <<42573, 42573, "L", 0, "U", FALSE>>,
    <<42575, 42575, "L", 0, "U", FALSE>>, <<42577, 42577, "L", 0, "U", FALSE>>,
    <<42579, 42579, "L", 0, "U", FALSE>>, <<42581, 42581, "L", 0, "U", FALSE>>,
    <<42583, 42583, "L", 0, "U", FALSE>>, <<42585, 42585, "L", 0, "U", FALSE>>,
    <<42587, 42587, "L", 0, "U", FALSE>>, <<42589, 42589, "L", 0, "U", FALSE>>,
    <<42591, 42591, "L", 0, "U", FALSE>>, <<42593, 42593, "L", 0, "U", FALSE>>,
    <<42595, 42595, "L", 0, "U", FALSE>>, <<42597, 42597, "L", 0, "U", FALSE>>,
    <<42599, 42599, "L", 0, "U", FALSE>>, <<42601, 42601, "L", 0, "U", FALSE>>,
    <<42603, 42603, "L", 0, "U", FALSE>>, <<42605, 42606, "L", 0, "U", FALSE>>,
    <<42607, 42607, "NSM", 230, "T", TRUE>>, <<42608, 42610, "NSM", 0, "T", TRUE>>,
    <<42611, 42611, "ON", 0, "U", FALSE>>, <<42612, 42621, "NSM", 230, "T", TRUE>>,
    <<42622, 42623, "ON", 0, "U", FALSE>>, <<42625, 42625, "L", 0, "U", FALSE>>,
    <<42627, 42627, "L", 0, "U", FALSE>>, <<42629, 42629, "L", 0, "U", FALSE>>,
    <<42631, 42631, "L", 0, "U", FALSE>>, <<42633, 42633, "L", 0, "U", FALSE>>,
    <<42635, 42635, "L", 0, "U", FALSE>>, <<42637, 42637, "L", 0, "U", FALSE>>,
    <<42639, 42639, "L", 0, "U", FALSE>>, <<42641, 42641, "L", 0, "U", FALSE>>,
    <<42643, 42643, "L", 0, "U", FALSE>>, <<42645, 42645, "L", 0, "U", FALSE>>,
    <<42647, 42647, "L", 0, "U", FALSE>>, <<42649, 42649, "L", 0, "U", FALSE>>,
    <<42651, 42651, "L", 0, "U", FALSE>>, <<42654, 42655, "NSM", 230, "T", TRUE>>,
    <<42656, 42735, "L", 0, "U", FALSE>>, <<42736, 42737, "NSM", 230, "T", TRUE>>,
    <<42738, 42743, "L", 0, "U", FALSE>>, <<42752, 42785, "ON", 0, "U", FALSE>>,
    <<42787, 42787, "L", 0, "U", FALSE>>, <<42789, 42789, "L", 0, "U", FALSE>>,
    <<42791, 42791, "L", 0, "U", FALSE>>, <<42793, 42793, "L", 0, "U", FALSE>>,
    <<42795, 42795, "L", 0, "U", FALSE>>, <<42797, 42797, "L", 0, "U", FALSE>>,
    <<42799, 42801, "L", 0, "U", FALSE>>, <<42803, 42803, "L", 0, "U", FALSE>>,
    <<42805, 42805, "L", 0, "U", FALSE>>, <<42807, 42807, "L", 0, "U", FALSE>>,
    <<42809, 42809, "L", 0, "U", FALSE>>, <<42811, 42811, "L", 0, "U", FALSE>>,
    <<42813, 42813, "L", 0, "U", FALSE>>, <<42815, 42815, "L", 0, "U", FALSE>>,
    <<42817, 42817, "L", 0, "U", FALSE>>, <<42819, 42819, "L", 0, "U", FALSE>>,
    <<42821, 42821, "L", 0, "U", FALSE>>, <<42823, 42823, "L", 0, "U", FALSE>>,
    <<42825, 42825, "L", 0, "U", FALSE>>, <<42827, 42827, "L", 0, "U", FALSE>>,
    <<42829, 42829, "L", 0, "U", FALSE>>, <<42831, 42831, "L", 0, "U", FALSE>>,
    <<42833, 42833, "L", 0, "U", FALSE>>, <<42835, 42835, "L", 0, "U", FALSE>>,
    <<42837, 42837, "L", 0, "U", FALSE>>, <<42839, 42839, "L", 0, "U", FALSE>>,
    <<42841, 42841, "L", 0, "U", FALSE>>, <<42843, 42843, "L", 0, "U", FALSE>>,
    <<42845, 42845, "L", 0, "U", FALSE>>, <<42847, 42847, "L", 0, "U", FALSE>>,
    <<42849, 42849, "L", 0, "U", FALSE>>, <<42851, 42851, "L", 0, "U", FALSE>>,
    <<42853, 42853, "L", 0, "U", FALSE>>, <<42855, 42855, "L", 0, "U", FALSE>>,
    <<42857, 42857, "L", 0, "U", FALSE>>, <<42859, 42859, "L", 0, "U", FALSE>>,
    <<42861, 42861, "L", 0, "U", FALSE>>, <<42863, 42863, "L", 0, "U", FALSE>>,
    <<42865, 42872, "L", 0, "U", FALSE>>, <<42874, 42874, "L", 0, "U", FALSE>>,
    <<42876, 42876, "L", 0, "U", FALSE>>, <<42879, 42879, "L", 0, "U", FALSE>>,
    <<42881, 42881, "L", 0, "U", FALSE>>, <<42883, 42883, "L", 0, "U", FALSE>>,
    <<42885, 42885, "L", 0, "U", FALSE>>, <<42887, 42887, "L", 0, "U", FALSE>>,
    <<42888, 42888, "ON", 0, "U", FALSE>>, <<42889, 42890, "L", 0, "U", FALSE>>,
    <<42892, 42892, "L", 0, "U", FALSE>>, <<42894, 42895, "L", 0, "U", FALSE>>,
    <<42897, 42897, "L", 0, "U", FALSE>>, <<42899, 42901, "L", 0, "U", FALSE>>,
    <<42903, 42903, "L", 0, "U", FALSE>>, <<42905, 42905, "L", 0, "U", FALSE>>,
    <<42907, 42907, "L", 0, "U", FALSE>>, <<42909, 42909, "L", 0, "U", FALSE>>,
    <<42911, 42911, "L", 0, "U", FALSE>>, <<42913, 42913, "L", 0, "U", FALSE>>,
    <<42915, 42915, "L", 0, "U", FALSE>>, <<42917, 42917, "L", 0, "U", FALSE>>,
    <<42919, 42919, "L", 0, "U", FALSE>>, <<42921, 42921, "L", 0, "U", FALSE>>,
    <<42927, 42927, "L", 0, "U", FALSE>>, <<42933, 42933, "L", 0, "U", FALSE>>,
    <<42935, 42935, "L", 0, "U", FALSE>>, <<42937, 42937, "L", 0, "U", FALSE>>,
    <<42939, 42939, "L", 0, "U", FALSE>>, <<42941, 42941, "L", 0, "U", FALSE>>,
    <<42943, 42943, "L", 0, "U", FALSE>>, <<42945, 42945, "L", 0, "U", FALSE>>,
    <<42947, 42947, "L", 0, "U", FALSE>>, <<42952, 42952, "L", 0, "U", FALSE>>,
    <<42954, 42954, "L", 0, "U", FALSE>>, <<42961, 42961, "L", 0, "U", FALSE>>,
    <<42963, 42963, "L", 0, "U", FALSE>>, <<42965, 42965, "L", 0, "U", FALSE>>,
    <<42967, 42967, "L", 0, "U", FALSE>>, <<42969, 42969, "L", 0, "U", FALSE>>,
    <<42998, 42999, "L", 0, "U", FALSE>>, <<43002, 43009, "L", 0, "U", FALSE>>,
    <<43010, 43010, "NSM", 0, "T", TRUE>>, <<43011, 43013, "L", 0, "U", FALSE>>,
    <<43014, 43014, "NSM", 9, "T", TRUE>>, <<43015, 43018, "L", 0, "U", FALSE>>,
    <<43019, 43019, "NSM", 0, "T", TRUE>>, <<43020, 43042, "L", 0, "U", FALSE>>,
    <<43043, 43044, "L", 0, "U", TRUE>>, <<43045, 43046, "NSM", 0, "T", TRUE>>,
    <<43047, 43047, "L", 0, "U", TRUE>>, <<43048, 43051, "ON", 0, "U", FALSE>>,
    <<43052, 43052, "NSM", 9, "T", TRUE>>, <<43056, 43063, "L", 0, "U", FALSE>>,
    <<43064, 43065, "ON", 0, "U", FALSE>>, <<43072, 43121, "L", 0, "D", FALSE>>,
    <<43122, 43122, "L", 0, "L", FALSE>>, <<43123, 43123, "L", 0, "U", FALSE>>,
    <<43124, 43127, "ON", 0, "U", FALSE>>, <<43136, 43137, "L", 0, "U", TRUE>>,
    <<43138, 43187, "L", 0, "U", FALSE>>, <<43188, 43203, "L", 0, "U", TRUE>>,
    <<43204, 43204, "NSM", 9, "T", TRUE>>, <<43205, 43205, "NSM", 0, "T", TRUE>>,
    <<43214, 43225, "L", 0, "U", FALSE>>, <<43232, 43249, "NSM", 230, "T", TRUE>>,
    <<43250, 43262, "L", 0, "U", FALSE>>, <<43263, 43263, "NSM", 0, "T", TRUE>>,
    <<43264, 43301, "L", 0, "U", FALSE>>, <<43302, 43306, "NSM", 0, "T", TRUE>>,
    <<43307, 43309, "NSM", 220, "T", TRUE>>, <<43310, 43334, "L", 0, "U", FALSE>>,
    <<43335, 43345, "NSM", 0, "T", TRUE>>, <<43346, 43346, "L", 0, "U", TRUE>>,
    <<43347, 43347, "L", 9, "U", TRUE>>, <<43359, 43388, "L", 0, "U", FALSE>>,
    <<43392, 43394, "NSM", 0, "T", TRUE>>, <<43395, 43395, "L", 0, "U", TRUE>>,
    <<43396, 43442, "L", 0, "U", FALSE>>, <<43443, 43443, "NSM", 7, "T", TRUE>>,
    <<43444, 43445, "L", 0, "U", TRUE>>, <<43446, 43449, "NSM", 0, "T", TRUE>>,
    <<43450, 43451, "L", 0, "U", TRUE>>, <<43452, 43453, "NSM", 0, "T", TRUE>>,
    <<43454, 43455, "L", 0, "U", TRUE>>, <<43456, 43456, "L", 9, "U", TRUE>>,
    <<43457, 43469, "L", 0, "U", FALSE>>, <<43471, 43481, "L", 0, "U", FALSE>>,
    <<43486, 43492, "L", 0, "U", FALSE>>, <<43493, 43493, "NSM", 0, "T", TRUE>>,
    <<43494, 43518, "L", 0, "U", FALSE>>, <<43520, 43560, "L", 0, "U", FALSE>>,
    <<43561, 43566, "NSM", 0, "T", TRUE>>, <<43567, 43568, "L", 0, "U", TRUE>>,
    <<43569, 43570, "NSM", 0, "T", TRUE>>, <<43571, 43572, "L", 0, "U", TRUE>>,
    <<43573, 43574, "NSM", 0, "T", TRUE>>, <<43584, 43586, "L", 0, "U", FALSE>>,
    <<43587, 43587, "NSM", 0, "T", TRUE>>, <<43588, 43595, "L", 0, "U", FALSE>>,
    <<43596, 43596, "NSM", 0, "T", TRUE>>, <<43597, 43597, "L", 0, "U", TRUE>>,
    <<43600, 43609, "L", 0, "U", FALSE>>, <<43612, 43642, "L", 0, "U", FALSE>>,
    <<43643, 43643, "L", 0, "U", TRUE>>, <<43644, 43644, "NSM", 0, "T", TRUE>>,
    <<43645, 43645, "L", 0, "U", TRUE>>, <<43646, 43695, "L", 0, "U", FALSE>>,
    <<43696, 43696, "NSM", 230, "T", TRUE>>, <<43697, 43697, "L", 0, "U", FALSE>>,
    <<43698, 43699, "NSM", 230, "T", TRUE>>, <<43700, 43700, "NSM", 220, "T", TRUE>>,
    <<43701, 43702, "L", 0, "U", FALSE>>, <<43703, 43704, "NSM", 230, "T", TRUE>>,
    <<43705, 43709, "L", 0, "U", FALSE>>, <<43710, 43711, "NSM", 230, "T", TRUE>>,
    <<43712, 43712, "L", 0, "U", FALSE>>, <<43713, 43713, "NSM", 230, "T", TRUE>>,
    <<43714, 43714, "L", 0, "U", FALSE>>, <<43739, 43754, "L", 0, "U", FALSE>>,
    <<43755, 43755, "L", 0, "U", TRUE>>, <<43756, 43757, "NSM", 0, "T", TRUE>>,
    <<43758, 43759, "L", 0, "U", TRUE>>, <<43760, 43764, "L", 0, "U", FALSE>>,
    <<43765, 43765, "L", 0, "U", TRUE>>, <<43766, 43766, "NSM", 9, "T", TRUE>>,
    <<43777, 43782, "L", 0, "U", FALSE>>, <<43785, 43790, "L", 0, "U", FALSE>>,
    <<43793, 43798, "L", 0, "U", FALSE>>, <<43808, 43814, "L", 0, "U", FALSE>>,
    <<43816, 43822, "L", 0, "U", FALSE>>, <<43824, 43867, "L", 0, "U", FALSE>>,
    <<43872, 43880, "L", 0, "U", FALSE>>, <<43882, 43883, "ON", 0, "U", FALSE>>,
    <<43968, 44002, "L", 0, "U", FALSE>>, <<44003, 44004, "L", 0, "U", TRUE>>,
    <<44005, 44005, "NSM", 0, "T", TRUE>>, <<44006, 44007, "L", 0, "U", TRUE>>,
    <<44008, 44008, "NSM", 0, "T", TRUE>>, <<44009, 44010, "L", 0, "U", TRUE>>,
    <<44011, 44011, "L", 0, "U", FALSE>>, <<44012, 44012, "L", 0, "U", TRUE>>,
    <<44013, 44013, "NSM", 9, "T", TRUE>>, <<44016, 44025, "L", 0, "U", FALSE>>,
    <<44032, 55203, "L", 0, "U", FALSE>>, <<55216, 55238, "L", 0, "U", FALSE>>,
    <<55243, 55291, "L", 0, "U", FALSE>>, <<64014, 64015, "L", 0, "U", FALSE>>,
    <<64017, 64017, "L", 0, "U", FALSE>>, <<64019, 64020, "L", 0, "U", FALSE>>,
    <<64031, 64031, "L", 0, "U", FALSE>>, <<64033, 64033, "L", 0, "U", FALSE>>,
    <<64035, 64036, "L", 0, "U", FALSE>>, <<64039, 64041, "L", 0, "U", FALSE>>,
    <<64286, 64286, "NSM", 26, "T", TRUE>>, <<64434, 64450, "R", 0, "U", FALSE>>,
    <<64830, 64847, "ON", 0, "U", FALSE>>, <<64975, 64975, "ON", 0, "U", FALSE>>,
    <<65021, 65023, "ON", 0, "U", FALSE>>, <<65056, 65062, "NSM", 230, "T", TRUE>>,
    <<65063, 65069, "NSM", 220, "T", TRUE>>, <<65070, 65071, "NSM", 230, "T", TRUE>>,
    <<65093, 65094, "ON", 0, "U", FALSE>>, <<65139, 65139, "R", 0, "U", FALSE>>,
    <<65536, 65547, "L", 0, "U", FALSE>>, <<65549, 65574, "L", 0, "U", FALSE>>,
    <<65576, 65594, "L", 0, "U", FALSE>>, <<65596, 65597, "L", 0, "U", FALSE>>,
    <<65599, 65613, "L", 0, "U", FALSE>>, <<65616, 65629, "L", 0, "U", FALSE>>,
    <<65664, 65786, "L", 0, "U", FALSE>>, <<65792, 65792, "L", 0, "U", FALSE>>,
    <<65793, 65793, "ON", 0, "U", FALSE>>, <<65794, 65794, "L", 0, "U", FALSE>>,
    <<65799, 65843, "L", 0, "U", FALSE>>, <<65847, 65855, "L", 0, "U", FALSE>>,
    <<65856, 65932, "ON", 0, "U", FALSE>>, <<65933, 65934, "L", 0, "U", FALSE>>,
    <<65936, 65948, "ON", 0, "U", FALSE>>, <<65952, 65952, "ON", 0, "U", FALSE>>,
    <<66000, 66044, "L", 0, "U", FALSE>>, <<66045, 66045, "NSM", 220, "T", TRUE>>,
    <<66176, 66204, "L", 0, "U", FALSE>>, <<66208, 66256, "L", 0, "U", FALSE>>,
    <<66272, 66272, "NSM", 220, "T", TRUE>>, <<66273, 66299, "EN", 0, "U", FALSE>>,
    <<66304, 66339, "L", 0, "U", FALSE>>, <<66349, 66378, "L", 0, "U", FALSE>>,
    <<66384, 66421, "L", 0, "U", FALSE>>, <<66422, 66426, "NSM", 230, "T", TRUE>>,
    <<66432, 66461, "L", 0, "U", FALSE>>, <<66463, 66499, "L", 0, "U", FALSE>>,
    <<66504, 66517, "L", 0, "U", FALSE>>, <<66600, 66717, "L", 0, "U", FALSE>>,
    <<66720, 66729, "L", 0, "U", FALSE>>, <<66776, 66811, "L", 0, "U", FALSE>>,
    <<66816, 66855, "L", 0, "U", FALSE>>, <<66864, 66915, "L", 0, "U", FALSE>>,
    <<66927, 66927, "L", 0, "U", FALSE>>, <<66967, 66977, "L", 0, "U", FALSE>>,
    <<66979, 66993, "L", 0, "U", FALSE>>, <<66995, 67001, "L", 0, "U", FALSE>>,
    <<67003, 67004, "L", 0, "U", FALSE>>, <<67072, 67382, "L", 0, "U", FALSE>>,
    <<67392, 67413, "L", 0, "U", FALSE>>, <<67424, 67431, "L", 0, "U", FALSE>>,
    <<67456, 67456, "L", 0, "U", FALSE>>, <<67584, 67589, "R", 0, "U", FALSE>>,
    <<67592, 67592, "R", 0, "U", FALSE>>, <<67594, 67637, "R", 0, "U", FALSE>>,
    <<67639, 67640, "R", 0, "U", FALSE>>, <<67644, 67644, "R", 0, "U", FALSE>>,
    <<67647, 67669, "R", 0, "U", FALSE>>, <<67671, 67742, "R", 0, "U", FALSE>>,
    <<67751, 67759, "R", 0, "U", FALSE>>, <<67808, 67826, "R", 0, "U", FALSE>>,
    <<67828, 67829, "R", 0, "U", FALSE>>, <<67835, 67867, "R", 0, "U", FALSE>>,
    <<67871, 67871, "ON", 0, "U", FALSE>>, <<67872, 67897, "R", 0, "U", FALSE>>,
    <<67903, 67903, "R", 0, "U", FALSE>>, <<67968, 68023, "R", 0, "U", FALSE>>,
    <<68028, 68047, "R", 0, "U", FALSE>>, <<68050, 68096, "R", 0, "U", FALSE>>,
    <<68097, 68099, "NSM", 0, "T", TRUE>>, <<68101, 68102, "NSM", 0, "T", TRUE>>,
    <<68108, 68108, "NSM", 0, "T", TRUE>>, <<68109, 68109, "NSM", 220, "T", TRUE>>,
    <<68110, 68110, "NSM", 0, "T", TRUE>>, <<68111, 68111, "NSM", 230, "T", TRUE>>,
    <<68112, 68115, "R", 0, "U", FALSE>>, <<68117, 68119, "R", 0, "U", FALSE>>,
    <<68121, 68149, "R", 0, "U", FALSE>>, <<68152, 68152, "NSM", 230, "T", TRUE>>,
    <<68153, 68153, "NSM", 1, "T", TRUE>>, <<68154, 68154, "NSM", 220, "T", TRUE>>,
    <<68159, 68159, "NSM", 9, "T", TRUE>>, <<68160, 68168, "R", 0, "U", FALSE>>,
    <<68176, 68184, "R", 0, "U", FALSE>>, <<68192, 68255, "R", 0, "U", FALSE>>,
    <<68288, 68292, "R", 0, "D", FALSE>>, <<68293, 68293, "R", 0, "R", FALSE>>,
    <<68294, 68294, "R", 0, "U", FALSE>>, <<68295, 68295, "R", 0, "R", FALSE>>,
    <<68296, 68296, "R", 0, "U", FALSE>>, <<68297, 68298, "R", 0, "R", FALSE>>,
    <<68299, 68300, "R", 0, "U", FALSE>>, <<68301, 68301, "R", 0, "L", FALSE>>,
    <<68302, 68306, "R", 0, "R", FALSE>>, <<68307, 68310, "R", 0, "D", FALSE>>,
    <<68311, 68311, "R", 0, "L", FALSE>>, <<68312, 68316, "R", 0, "D", FALSE>>,
    <<68317, 68317, "R", 0, "R", FALSE>>, <<68318, 68320, "R", 0, "D", FALSE>>,
    <<68321, 68321, "R", 0, "R", FALSE>>, <<68322, 68323, "R", 0, "U", FALSE>>,
    <<68324, 68324, "R", 0, "R", FALSE>>, <<68325, 68325, "NSM", 230, "T", TRUE>>,
    <<68326, 68326, "NSM", 220, "T", TRUE>>, <<68331, 68334, "R", 0, "D", FALSE>>,
    <<68335, 68335, "R", 0, "R", FALSE>>, <<68336, 68342, "R", 0, "U", FALSE>>,
    <<68352, 68405, "R", 0, "U", FALSE>>, <<68409, 68415, "ON", 0, "U", FALSE>>,
    <<68416, 68437, "R", 0, "U", FALSE>>, <<68440, 68466, "R", 0, "U", FALSE>>,
    <<68472, 68479, "R", 0, "U", FALSE>>, <<68480, 68480, "R", 0, "D", FALSE>>,
    <<68481, 68481, "R", 0, "R", FALSE>>, <<68482, 68482, "R", 0, "D", FALSE>>,
    <<68483, 68485, "R", 0, "R", FALSE>>, <<68486, 68488, "R", 0, "D", FALSE>>,
    <<68489, 68489, "R", 0, "R", FALSE>>, <<68490, 68491, "R", 0, "D", FALSE>>,
    <<68492, 68492, "R", 0, "R", FALSE>>, <<68493, 68493, "R", 0, "D", FALSE>>,
    <<68494, 68495, "R", 0, "R", FALSE>>, <<68496, 68496, "R", 0, "D", FALSE>>,
    <<68497, 68497, "R", 0, "R", FALSE>>, <<68505, 68508, "R", 0, "U", FALSE>>,
    <<68521, 68524, "R", 0, "R", FALSE>>, <<68525, 68526, "R", 0, "D", FALSE>>,
    <<68527, 68527, "R", 0, "U", FALSE>>, <<68608, 68680, "R", 0, "U", FALSE>>,
    <<68800, 68850, "R", 0, "U", FALSE>>, <<68858, 68863, "R", 0, "U", FALSE>>,
    <<68864, 68864, "R", 0, "L", FALSE>>, <<68865, 68897, "R", 0, "D", FALSE>>,
    <<68898, 68898, "R", 0, "R", FALSE>>, <<68899, 68899, "R", 0, "D", FALSE>>,
    <<68900, 68903, "NSM", 230, "T", TRUE>>, <<68912, 68921, "AN", 0, "U", FALSE>>,
    <<69216, 69246, "AN", 0, "U", FALSE>>, <<69248, 69289, "R", 0, "U", FALSE>>,
    <<69291, 69292, "NSM", 230, "T", TRUE>>, <<69293, 69293, "R", 0, "U", FALSE>>,
    <<69296, 69297, "R", 0, "U", FALSE>>, <<69373, 69375, "NSM", 220, "T", TRUE>>,
    <<69376, 69415, "R", 0, "U", FALSE>>, <<69424, 69426, "R", 0, "D", FALSE>>,
    <<69427, 69427, "R", 0, "R", FALSE>>, <<69428, 69444, "R", 0, "D", FALSE>>,
    <<69445, 69445, "R", 0, "U", FALSE>>, <<69446, 69447, "NSM", 220, "T", TRUE>>,
    <<69448, 69450, "NSM", 230, "T", TRUE>>, <<69451, 69451, "NSM", 220, "T", TRUE>>,
    <<69452, 69452, "NSM", 230, "T", TRUE>>, <<69453, 69456, "NSM", 220, "T", TRUE>>,
    <<69457, 69459, "R", 0, "D", FALSE>>, <<69460, 69460, "R", 0, "R", FALSE>>,
    <<69461, 69465, "R", 0, "U", FALSE>>, <<69488, 69491, "R", 0, "D", FALSE>>,
    <<69492, 69493, "R", 0, "R", FALSE>>, <<69494, 69505, "R", 0, "D", FALSE>>,
    <<69506, 69506, "NSM", 230, "T", TRUE>>, <<69507, 69507, "NSM", 220, "T", TRUE>>,
    <<69508, 69508, "NSM", 230, "T", TRUE>>, <<69509, 69509, "NSM", 220, "T", TRUE>>,
    <<69510, 69513, "R", 0, "U", FALSE>>, <<69552, 69552, "R", 0, "D", FALSE>>,
    <<69553, 69553, "R", 0, "U", FALSE>>, <<69554, 69555, "R", 0, "D", FALSE>>,
    <<69556, 69558, "R", 0, "R", FALSE>>, <<69559, 69559, "R", 0, "U", FALSE>>,
    <<69560, 69560, "R", 0, "D", FALSE>>, <<69561, 69562, "R", 0, "R", FALSE>>,
    <<69563, 69564, "R", 0, "D", FALSE>>, <<69565, 69565, "R", 0, "R", FALSE>>,
    <<69566, 69567, "R", 0, "D", FALSE>>, <<69568, 69568, "R", 0, "U", FALSE>>,
    <<69569, 69569, "R", 0, "D", FALSE>>, <<69570, 69571, "R", 0, "R", FALSE>>,
    <<69572, 69572, "R", 0, "D", FALSE>>, <<69573, 69576, "R", 0, "U", FALSE>>,
    <<69577, 69577, "R", 0, "R", FALSE>>, <<69578, 69578, "R", 0, "D", FALSE>>,
    <<69579, 69579, "R", 0, "L", FALSE>>, <<69600, 69622, "R", 0, "U", FALSE>>,
    <<69632, 69632, "L", 0, "U", TRUE>>, <<69633, 69633, "NSM", 0, "T", TRUE>>,
    <<69634, 69634, "L", 0, "U", TRUE>>, <<69635, 69687, "L", 0, "U", FALSE>>,
    <<69688, 69701, "NSM", 0, "T", TRUE>>, <<69702, 69702, "NSM", 9, "T", TRUE>>,
    <<69703, 69709, "L", 0, "U", FALSE>>, <<69714, 69733, "ON", 0, "U", FALSE>>,
    <<69734, 69743, "L", 0, "U", FALSE>>, <<69744, 69744, "NSM", 9, "T", TRUE>>,
    <<69745, 69746, "L", 0, "U", FALSE>>, <<69747, 69748, "NSM", 0, "T", TRUE>>,
    <<69749, 69749, "L", 0, "U", FALSE>>, <<69759, 69759, "NSM", 9, "T", TRUE>>,
    <<69760, 69761, "NSM", 0, "T", TRUE>>, <<69762, 69762, "L", 0, "U", TRUE>>,
    <<69763, 69807, "L", 0, "U", FALSE>>, <<69808, 69810, "L", 0, "U", TRUE>>,
    <<69811, 69814, "NSM", 0, "T", TRUE>>, <<69815, 69816, "L", 0, "U", TRUE>>,
    <<69817, 69817, "NSM", 9, "T", TRUE>>, <<69818, 69818, "NSM", 7, "T", TRUE>>,
    <<69819, 69820, "L", 0, "U", FALSE>>, <<69822, 69825, "L", 0, "U", FALSE>>,
    <<69826, 69826, "NSM", 0, "T", TRUE>>, <<69840, 69864, "L", 0, "U", FALSE>>,
    <<69872, 69881, "L", 0, "U", FALSE>>, <<69888, 69890, "NSM", 230, "T", TRUE>>,
    <<69891, 69926, "L", 0, "U", FALSE>>, <<69927, 69931, "NSM", 0, "T", TRUE>>,
    <<69932, 69932, "L", 0, "U", TRUE>>, <<69933, 69938, "NSM", 0, "T", TRUE>>,
    <<69939, 69940, "NSM", 9, "T", TRUE>>, <<69942, 69956, "L", 0, "U", FALSE>>,
    <<69957, 69958, "L", 0, "U", TRUE>>, <<69959, 69959, "L", 0, "U", FALSE>>,
    <<69968, 70002, "L", 0, "U", FALSE>>, <<70003, 70003, "NSM", 7, "T", TRUE>>,
    <<70004, 70006, "L", 0, "U", FALSE>>, <<70016, 70017, "NSM", 0, "T", TRUE>>,
    <<70018, 70018, "L", 0, "U", TRUE>>, <<70019, 70066, "L", 0, "U", FALSE>>,
    <<70067, 70069, "L", 0, "U", TRUE>>, <<70070, 70078, "NSM", 0, "T", TRUE>>,
    <<70079, 70079, "L", 0, "U", TRUE>>, <<70080, 70080, "L", 9, "U", TRUE>>,
    <<70081, 70088, "L", 0, "U", FALSE>>, <<70089, 70089, "NSM", 0, "T", TRUE>>,
    <<70090, 70090, "NSM", 7, "T", TRUE>>, <<70091, 70092, "NSM", 0, "T", TRUE>>,
    <<70093, 70093, "L", 0, "U", FALSE>>, <<70094, 70094, "L", 0, "U", TRUE>>,
    <<70095, 70095, "NSM", 0, "T", TRUE>>, <<70096, 70111, "L", 0, "U", FALSE>>,
    <<70113, 70132, "L", 0, "U", FALSE>>, <<70144, 70161, "L", 0, "U", FALSE>>,
    <<70163, 70187, "L", 0, "U", FALSE>>, <<70188, 70190, "L", 0, "U", TRUE>>,
    <<70191, 70193, "NSM", 0, "T", TRUE>>, <<70194, 70195, "L", 0, "U", TRUE>>,
    <<70196, 70196, "NSM", 0, "T", TRUE>>, <<70197, 70197, "L", 9, "U", TRUE>>,
    <<70198, 70198, "NSM", 7, "T", TRUE>>, <<70199, 70199, "NSM", 0, "T", TRUE>>,
    <<70200, 70205, "L", 0, "U", FALSE>>, <<70206, 70206, "NSM", 0, "T", TRUE>>,
    <<70207, 70208, "L", 0, "U", FALSE>>, <<70209, 70209, "NSM", 0, "T", TRUE>>,
    <<70272, 70278, "L", 0, "U", FALSE>>, <<70280, 70280, "L", 0, "U", FALSE>>,
    <<70282, 70285, "L", 0, "U", FALSE>>, <<70287, 70301, "L", 0, "U", FALSE>>,
    <<70303, 70313, "L", 0, "U", FALSE>>, <<70320, 70366, "L", 0, "U", FALSE>>,
    <<70367, 70367, "NSM", 0, "T", TRUE>>, <<70368, 70370, "L", 0, "U", TRUE>>,
    <<70371, 70376, "NSM", 0, "T", TRUE>>, <<70377, 70377, "NSM", 7, "T", TRUE>>,
    <<70378, 70378, "NSM", 9, "T", TRUE>>, <<70384, 70393, "L", 0, "U", FALSE>>,
    <<70400, 70401, "NSM", 0, "T", TRUE>>, <<70402, 70403, "L", 0, "U", TRUE>>,
    <<70405, 70412, "L", 0, "U", FALSE>>, <<70415, 70416, "L", 0, "U", FALSE>>,
    <<70419, 70440, "L", 0, "U", FALSE>>, <<70442, 70448, "L", 0, "U", FALSE>>,
    <<70450, 70451, "L", 0, "U", FALSE>>, <<70453, 70457, "L", 0, "U", FALSE>>,
    <<70459, 70460, "NSM", 7, "T", TRUE>>, <<70461, 70461, "L", 0, "U", FALSE>>,
    <<70462, 70463, "L", 0, "U", TRUE>>, <<70464, 70464, "NSM", 0, "T", TRUE>>,
    <<70465, 70468, "L", 0, "U", TRUE>>, <<70471, 70472, "L", 0, "U", TRUE>>,
    <<70475, 70476, "L", 0, "U", TRUE>>, <<70477, 70477, "L", 9, "U", TRUE>>,
    <<70480, 70480, "L", 0, "U", FALSE>>, <<70487, 70487, "L", 0, "U", TRUE>>,
    <<70493, 70497, "L", 0, "U", FALSE>>, <<70498, 70499, "L", 0, "U", TRUE>>,
    <<70502, 70508, "NSM", 230, "T", TRUE>>, <<70512, 70516, "NSM", 230, "T", TRUE>>,
    <<70656, 70708, "L", 0, "U", FALSE>>, <<70709, 70711, "L", 0, "U", TRUE>>,
    <<70712, 70719, "NSM", 0, "T", TRUE>>, <<70720, 70721, "L", 0, "U", TRUE>>,
    <<70722, 70722, "NSM", 9, "T", TRUE>>, <<70723, 70724, "NSM", 0, "T", TRUE>>,
    <<70725, 70725, "L", 0, "U", TRUE>>, <<70726, 70726, "NSM", 7, "T", TRUE>>,
    <<70727, 70747, "L", 0, "U", FALSE>>, <<70749, 70749, "L", 0, "U", FALSE>>,
    <<70750, 70750, "NSM", 230, "T", TRUE>>, <<70751, 70753, "L", 0, "U", FALSE>>,
    <<70784, 70831, "L", 0, "U", FALSE>>, <<70832, 70834, "L", 0, "U", TRUE>>,
    <<70835, 70840, "NSM", 0, "T", TRUE>>, <<70841, 70841, "L", 0, "U", TRUE>>,
    <<70842, 70842, "NSM", 0, "T", TRUE>>, <<70843, 70846, "L", 0, "U", TRUE>>,
    <<70847, 70848, "NSM", 0, "T", TRUE>>, <<70849, 70849, "L", 0, "U", TRUE>>,
    <<70850, 70850, "NSM", 9, "T", TRUE>>, <<70851, 70851, "NSM", 7, "T", TRUE>>,
    <<70852, 70855, "L", 0, "U", FALSE>>, <<70864, 70873, "L", 0, "U", FALSE>>,
    <<71040, 71086, "L", 0, "U", FALSE>>, <<71087, 71089, "L", 0, "U", TRUE>>,
    <<71090, 71093, "NSM", 0, "T", TRUE>>, <<71096, 71099, "L", 0, "U", TRUE>>,
    <<71100, 71101, "NSM", 0, "T", TRUE>>, <<71102, 71102, "L", 0, "U", TRUE>>,
    <<71103, 71103, "NSM", 9, "T", TRUE>>, <<71104, 71104, "NSM", 7, "T", TRUE>>,
    <<71105, 71131, "L", 0, "U", FALSE>>, <<71132, 71133, "NSM", 0, "T", TRUE>>,
    <<71168, 71215, "L", 0, "U", FALSE>>, <<71216, 71218, "L", 0, "U", TRUE>>,
    <<71219, 71226, "NSM", 0, "T", TRUE>>, <<71227, 71228, "L", 0, "U", TRUE>>,
    <<71229, 71229, "NSM", 0, "T", TRUE>>, <<71230, 71230, "L", 0, "U", TRUE>>,
    <<71231, 71231, "NSM", 9, "T", TRUE>>, <<71232, 71232, "NSM", 0, "T", TRUE>>,
    <<71233, 71236, "L", 0, "U", FALSE>>, <<71248, 71257, "L", 0, "U", FALSE>>,
    <<71264, 71276, "ON", 0, "U", FALSE>>, <<71296, 71338, "L", 0, "U", FALSE>>,
    <<71339, 71339, "NSM", 0, "T", TRUE>>, <<71340, 71340, "L", 0, "U", TRUE>>,
    <<71341, 71341, "NSM", 0, "T", TRUE>>, <<71342, 71343, "L", 0, "U", TRUE>>,
    <<71344, 71349, "NSM", 0, "T", TRUE>>, <<71350, 71350, "L", 9, "U", TRUE>>,
    <<71351, 71351, "NSM", 7, "T", TRUE>>, <<71352, 71353, "L", 0, "U", FALSE>>,
    <<71360, 71369, "L", 0, "U", FALSE>>, <<71424, 71450, "L", 0, "U", FALSE>>,
    <<71453, 71455, "NSM", 0, "T", TRUE>>, <<71456, 71457, "L", 0, "U", TRUE>>,
    <<71458, 71461, "NSM", 0, "T", TRUE>>, <<71462, 71462, "L", 0, "U", TRUE>>,
    <<71463, 71466, "NSM", 0, "T", TRUE>>, <<71467, 71467, "NSM", 9, "T", TRUE>>,
    <<71472, 71494, "L", 0, "U", FALSE>>, <<71680, 71723, "L", 0, "U", FALSE>>,
    <<71724, 71726, "L", 0, "U", TRUE>>, <<71727, 71735, "NSM", 0, "T", TRUE>>,
    <<71736, 71736, "L", 0, "U", TRUE>>, <<71737, 71737, "NSM", 9, "T", TRUE>>,
    <<71738, 71738, "NSM", 7, "T", TRUE>>, <<71739, 71739, "L", 0, "U", FALSE>>,
    <<71872, 71922, "L", 0, "U", FALSE>>, <<71935, 71942, "L", 0, "U", FALSE>>,
    <<71945, 71945, "L", 0, "U", FALSE>>, <<71948, 71955, "L", 0, "U", FALSE>>,
    <<71957, 71958, "L", 0, "U", FALSE>>, <<71960, 71983, "L", 0, "U", FALSE>>,
    <<71984, 71989, "L", 0, "U", TRUE>>, <<71991, 71992, "L", 0, "U", TRUE>>,
    <<71995, 71996, "NSM", 0, "T", TRUE>>, <<71997, 71997, "L", 9, "U", TRUE>>,
    <<71998, 71998, "NSM", 9, "T", TRUE>>, <<71999, 71999, "L", 0, "U", FALSE>>,
    <<72000, 72000, "L", 0, "U", TRUE>>, <<72001, 72001, "L", 0, "U", FALSE>>,
    <<72002, 72002, "L", 0, "U", TRUE>>, <<72003, 72003, "NSM", 7, "T", TRUE>>,
    <<72004, 72006, "L", 0, "U", FALSE>>, <<72016, 72025, "L", 0, "U", FALSE>>,
    <<72096, 72103, "L", 0, "U", FALSE>>, <<72106, 72144, "L", 0, "U", FALSE>>,
    <<72145, 72147, "L", 0, "U", TRUE>>, <<72148, 72151, "NSM", 0, "T", TRUE>>,
    <<72154, 72155, "NSM", 0, "T", TRUE>>, <<72156, 72159, "L", 0, "U", TRUE>>,
    <<72160, 72160, "NSM", 9, "T", TRUE>>, <<72161, 72163, "L", 0, "U", FALSE>>,
    <<72164, 72164, "L", 0, "U", TRUE>>, <<72192, 72192, "L", 0, "U", FALSE>>,
    <<72193, 72198, "NSM", 0, "T", TRUE>>, <<72199, 72200, "L", 0, "T", TRUE>>,
    <<72201, 72202, "NSM", 0, "T", TRUE>>, <<72203, 72242, "L", 0, "U", FALSE>>,
    <<72243, 72243, "NSM", 0, "T", TRUE>>, <<72244, 72244, "NSM", 9, "T", TRUE>>,
    <<72245, 72248, "NSM", 0, "T", TRUE>>, <<72249, 72249, "L", 0, "U", TRUE>>,
    <<72250, 72250, "L", 0, "U", FALSE>>, <<72251, 72254, "NSM", 0, "T", TRUE>>,
    <<72255, 72262, "L", 0, "U", FALSE>>, <<72263, 72263, "NSM", 9, "T", TRUE>>,
    <<72272, 72272, "L", 0, "U", FALSE>>, <<72273, 72278, "NSM", 0, "T", TRUE>>,
    <<72279, 72280, "L", 0, "U", TRUE>>, <<72281, 72283, "NSM", 0, "T", TRUE>>,
    <<72284, 72329, "L", 0, "U", FALSE>>, <<72330, 72342, "NSM", 0, "T", TRUE>>,
    <<72343, 72343, "L", 0, "U", TRUE>>, <<72344, 72344, "NSM", 0, "T", TRUE>>,
    <<72345, 72345, "NSM", 9, "T", TRUE>>, <<72346, 72354, "L", 0, "U", FALSE>>,
    <<72368, 72440, "L", 0, "U", FALSE>>, <<72448, 72457, "L", 0, "U", FALSE>>,
    <<72704, 72712, "L", 0, "U", FALSE>>, <<72714, 72750, "L", 0, "U", FALSE>>,
    <<72751, 72751, "L", 0, "U", TRUE>>, <<72752, 72758, "NSM", 0, "T", TRUE>>,
    <<72760, 72765, "NSM", 0, "T", TRUE>>, <<72766, 72766, "L", 0, "U", TRUE>>,
    <<72767, 72767, "L", 9, "T", TRUE>>, <<72768, 72773, "L", 0, "U", FALSE>>,
    <<72784, 72812, "L", 0, "U", FALSE>>, <<72816, 72847, "L", 0, "U", FALSE>>,
    <<72850, 72871, "NSM", 0, "T", TRUE>>, <<72873, 72873, "L", 0, "U", TRUE>>,
    <<72874, 72880, "NSM", 0, "T", TRUE>>, <<72881, 72881, "L", 0, "U", TRUE>>,
    <<72882, 72883, "NSM", 0, "T", TRUE>>, <<72884, 72884, "L", 0, "U", TRUE>>,
    <<72885, 72886, "NSM", 0, "T", TRUE>>, <<72960, 72966, "L", 0, "U", FALSE>>,
    <<72968, 72969, "L", 0, "U", FALSE>>, <<72971, 73008, "L", 0, "U", FALSE>>,
    <<73009, 73014, "NSM", 0, "T", TRUE>>, <<73018, 73018, "NSM", 0, "T", TRUE>>,
    <<73020, 73021, "NSM", 0, "T", TRUE>>, <<73023, 73025, "NSM", 0, "T", TRUE>>,
    <<73026, 73026, "NSM", 7, "T", TRUE>>, <<73027, 73027, "NSM", 0, "T", TRUE>>,
    <<73028, 73029, "NSM", 9, "T", TRUE>>, <<73030, 73030, "L", 0, "U", FALSE>>,
    <<73031, 73031, "NSM", 0, "T", TRUE>>, <<73040, 73049, "L", 0, "U", FALSE>>,
    <<73056, 73061, "L", 0, "U", FALSE>>, <<73063, 73064, "L", 0, "U", FALSE>>,
    <<73066, 73097, "L", 0, "U", FALSE>>, <<73098, 73102, "L", 0, "U", TRUE>>,
    <<73104, 73105, "NSM", 0, "T", TRUE>>, <<73107, 73108, "L", 0, "U", TRUE>>,
    <<73109, 73109, "NSM", 0, "T", TRUE>>, <<73110, 73110, "L", 0, "U", TRUE>>,
    <<73111, 73111, "NSM", 9, "T", TRUE>>, <<73112, 73112, "L", 0, "U", FALSE>>,
    <<73120, 73129, "L", 0, "U", FALSE>>, <<73440, 73458, "L", 0, "U", FALSE>>,
    <<73459, 73460, "NSM", 0, "T", TRUE>>, <<73461, 73462, "L", 0, "U", TRUE>>,
    <<73463, 73464, "L", 0, "U", FALSE>>, <<73472, 73473, "NSM", 0, "T", TRUE>>,
    <<73474, 73474, "L", 0, "U", FALSE>>, <<73475, 73475, "L", 0, "U", TRUE>>,
    <<73476, 73488, "L", 0, "U", FALSE>>, <<73490, 73523, "L", 0, "U", FALSE>>,
    <<73524, 73525, "L", 0, "U", TRUE>>, <<73526, 73530, "NSM", 0, "T", TRUE>>,
    <<73534, 73535, "L", 0, "U", TRUE>>, <<73536, 73536, "NSM", 0, "T", TRUE>>,
    <<73537, 73537, "L", 9, "U", TRUE>>, <<73538, 73538, "NSM", 9, "T", TRUE>>,
    <<73539, 73561, "L", 0, "U", FALSE>>, <<73648, 73648, "L", 0, "U", FALSE>>,
    <<73664, 73684, "L", 0, "U", FALSE>>, <<73685, 73713, "ON", 0, "U", FALSE>>,
    <<73727, 74649, "L", 0, "U", FALSE>>, <<74752, 74862, "L", 0, "U", FALSE>>,
    <<74864, 74868, "L", 0, "U", FALSE>>, <<74880, 75075, "L", 0, "U", FALSE>>,
    <<77712, 77810, "L", 0, "U", FALSE>>, <<77824, 78895, "L", 0, "U", FALSE>>,
    <<78912, 78912, "NSM", 0, "T", TRUE>>, <<78913, 78918, "L", 0, "U", FALSE>>,
    <<78919, 78933, "NSM", 0, "T", TRUE>>, <<82944, 83526, "L", 0, "U", FALSE>>,
    <<92160, 92728, "L", 0, "U", FALSE>>, <<92736, 92766, "L", 0, "U", FALSE>>,
    <<92768, 92777, "L", 0, "U", FALSE>>, <<92782, 92862, "L", 0, "U", FALSE>>,
    <<92864, 92873, "L", 0, "U", FALSE>>, <<92880, 92909, "L", 0, "U", FALSE>>,
    <<92912, 92916, "NSM", 1, "T", TRUE>>, <<92917, 92917, "L", 0, "U", FALSE>>,
    <<92928, 92975, "L", 0, "U", FALSE>>, <<92976, 92982, "NSM", 230, "T", TRUE>>,
    <<92983, 92997, "L", 0, "U", FALSE>>, <<93008, 93017, "L", 0, "U", FALSE>>,
    <<93019, 93025, "L", 0, "U", FALSE>>, <<93027, 93047, "L", 0, "U", FALSE>>,
    <<93053, 93071, "L", 0, "U", FALSE>>, <<93792, 93850, "L", 0, "U", FALSE>>,
    <<93952, 94026, "L", 0, "U", FALSE>>, <<94031, 94031, "NSM", 0, "T", TRUE>>,
    <<94032, 94032, "L", 0, "U", FALSE>>, <<94033, 94087, "L", 0, "U", TRUE>>,
    <<94095, 94098, "NSM", 0, "T", TRUE>>, <<94099, 94111, "L", 0, "U", FALSE>>,
    <<94176, 94177, "L", 0, "U", FALSE>>, <<94178, 94178, "ON", 0, "U", FALSE>>,
    <<94179, 94179, "L", 0, "U", FALSE>>, <<94180, 94180, "NSM", 0, "T", TRUE>>,
    <<94192, 94193, "L", 6, "U", TRUE>>, <<94208, 100343, "L", 0, "U", FALSE>>,
    <<100352, 101589, "L", 0, "U", FALSE>>, <<101632, 101640, "L", 0, "U", FALSE>>,
    <<110576, 110579, "L", 0, "U", FALSE>>, <<110581, 110587, "L", 0, "U", FALSE>>,
    <<110589, 110590, "L", 0, "U", FALSE>>, <<110592, 110882, "L", 0, "U", FALSE>>,
    <<110898, 110898, "L", 0, "U", FALSE>>, <<110928, 110930, "L", 0, "U", FALSE>>,
    <<110933, 110933, "L", 0, "U", FALSE>>, <<110948, 110951, "L", 0, "U", FALSE>>,
    <<110960, 111355, "L", 0, "U", FALSE>>, <<113664, 113770, "L", 0, "U", FALSE>>,
    <<113776, 113788, "L", 0, "U", FALSE>>, <<113792, 113800, "L", 0, "U", FALSE>>,
    <<113808, 113817, "L", 0, "U", FALSE>>, <<113820, 113820, "L", 0, "U", FALSE>>,
    <<113821, 113821, "NSM", 0, "T", TRUE>>, <<113822, 113822, "NSM", 1, "T", TRUE>>,
    <<113823, 113823, "L", 0, "U", FALSE>>, <<118528, 118573, "NSM", 0, "T", TRUE>>,
    <<118576, 118598, "NSM", 0, "T", TRUE>>, <<118608, 118723, "L", 0, "U", FALSE>>,
    <<118784, 119029, "L", 0, "U", FALSE>>, <<119040, 119078, "L", 0, "U", FALSE>>,
    <<119081, 119133, "L", 0, "U", FALSE>>, <<119141, 119142, "L", 216, "U", TRUE>>,
    <<119143, 119145, "NSM", 1, "T", TRUE>>, <<119146, 119148, "L", 0, "U", FALSE>>,
    <<119149, 119149, "L", 226, "U", TRUE>>, <<119150, 119154, "L", 216, "U", TRUE>>,
    <<119163, 119170, "NSM", 220, "T", TRUE>>, <<119171, 119172, "L", 0, "U", FALSE>>,
    <<119173, 119177, "NSM", 230, "T", TRUE>>, <<119178, 119179, "NSM", 220, "T", TRUE>>,
    <<119180, 119209, "L", 0, "U", FALSE>>, <<119210, 119213, "NSM", 230, "T", TRUE>>,
    <<119214, 119226, "L", 0, "U", FALSE>>, <<119233, 119272, "L", 0, "U", FALSE>>,
    <<119273, 119274, "ON", 0, "U", FALSE>>, <<119296, 119361, "ON", 0, "U", FALSE>>,
    <<119362, 119364, "NSM", 230, "T", TRUE>>, <<119365, 119365, "ON", 0, "U", FALSE>>,
    <<119488, 119507, "L", 0, "U", FALSE>>, <<119520, 119539, "L", 0, "U", FALSE>>,
    <<119552, 119638, "ON", 0, "U", FALSE>>, <<119648, 119672, "L", 0, "U", FALSE>>,
    <<120832, 121343, "L", 0, "U", FALSE>>, <<121344, 121398, "NSM", 0, "T", TRUE>>,
    <<121399, 121402, "L", 0, "U", FALSE>>, <<121403, 121452, "NSM", 0, "T", TRUE>>,
    <<121453, 121460, "L", 0, "U", FALSE>>, <<121461, 121461, "NSM", 0, "T", TRUE>>,
    <<121462, 121475, "L", 0, "U", FALSE>>, <<121476, 121476, "NSM", 0, "T", TRUE>>,
    <<121477, 121483, "L", 0, "U", FALSE>>, <<121499, 121503, "NSM", 0, "T", TRUE>>,
    <<121505, 121519, "NSM", 0, "T", TRUE>>, <<122624, 122654, "L", 0, "U", FALSE>>,
    <<122661, 122666, "L", 0, "U", FALSE>>, <<122880, 122886, "NSM", 230, "T", TRUE>>,
    <<122888, 122904, "NSM", 230, "T", TRUE>>, <<122907, 122913, "NSM", 230, "T", TRUE>>,
    <<122915, 122916, "NSM", 230, "T", TRUE>>, <<122918, 122922, "NSM", 230, "T", TRUE>>,
    <<123023, 123023, "NSM", 230, "T", TRUE>>, <<123136, 123180, "L", 0, "U", FALSE>>,
    <<123184, 123190, "NSM", 230, "T", TRUE>>, <<123191, 123197, "L", 0, "U", FALSE>>,
    <<123200, 123209, "L", 0, "U", FALSE>>, <<123214, 123215, "L", 0, "U", FALSE>>,
    <<123536, 123565, "L", 0, "U", FALSE>>, <<123566, 123566, "NSM", 230, "T", TRUE>>,
    <<123584, 123627, "L", 0, "U", FALSE>>, <<123628, 123631, "NSM", 230, "T", TRUE>>,
    <<123632, 123641, "L", 0, "U", FALSE>>, <<123647, 123647, "ON", 0, "U", FALSE>>,
    <<124112, 124139, "L", 0, "U", FALSE>>, <<124140, 124141, "NSM", 232, "T", TRUE>>,
    <<124142, 124142, "NSM", 220, "T", TRUE>>, <<124143, 124143, "NSM", 230, "T", TRUE>>,
    <<124144, 124153, "L", 0, "U", FALSE>>, <<124896, 124902, "L", 0, "U", FALSE>>,
    <<124904, 124907, "L", 0, "U", FALSE>>, <<124909, 124910, "L", 0, "U", FALSE>>,
    <<124912, 124926, "L", 0, "U", FALSE>>, <<124928, 125124, "R", 0, "U", FALSE>>,
    <<125127, 125135, "R", 0, "U", FALSE>>, <<125136, 125142, "NSM", 220, "T", TRUE>>,
    <<125218, 125251, "R", 0, "D", FALSE>>, <<125252, 125257, "NSM", 230, "T", TRUE>>,
    <<125258, 125258, "NSM", 7, "T", TRUE>>, <<125259, 125259, "R", 0, "T", FALSE>>,
    <<125264, 125273, "R", 0, "U", FALSE>>, <<125278, 125279, "R", 0, "U", FALSE>>,
    <<126065, 126132, "R", 0, "U", FALSE>>, <<126209, 126269, "R", 0, "U", FALSE>>,
    <<126704, 126705, "ON", 0, "U", FALSE>>, <<126976, 127019, "ON", 0, "U", FALSE>>,
    <<127024, 127123, "ON", 0, "U", FALSE>>, <<127136, 127150, "ON", 0, "U", FALSE>>,
    <<127153, 127167, "ON", 0, "U", FALSE>>, <<127169, 127183, "ON", 0, "U", FALSE>>,
    <<127185, 127221, "ON", 0, "U", FALSE>>, <<127243, 127247, "ON", 0, "U", FALSE>>,
    <<127279, 127279, "ON", 0, "U", FALSE>>, <<127312, 127337, "L", 0, "U", FALSE>>,
    <<127341, 127343, "ON", 0, "U", FALSE>>, <<127344, 127375, "L", 0, "U", FALSE>>,
    <<127377, 127404, "L", 0, "U", FALSE>>, <<127405, 127405, "ON", 0, "U", FALSE>>,
    <<127462, 127487, "L", 0, "U", FALSE>>, <<127584, 127589, "ON", 0, "U", FALSE>>,
    <<127744, 128727, "ON", 0, "U", FALSE>>, <<128732, 128748, "ON", 0, "U", FALSE>>,
    <<128752, 128764, "ON", 0, "U", FALSE>>, <<128768, 128886, "ON", 0, "U", FALSE>>,
    <<128891, 128985, "ON", 0, "U", FALSE>>, <<128992, 129003, "ON", 0, "U", FALSE>>,
    <<129008, 129008, "ON", 0, "U", FALSE>>, <<129024, 129035, "ON", 0, "U", FALSE>>,
    <<129040, 129095, "ON", 0, "U", FALSE>>, <<129104, 129113, "ON", 0, "U", FALSE>>,
    <<129120, 129159, "ON", 0, "U", FALSE>>, <<129168, 129197, "ON", 0, "U", FALSE>>,
    <<129200, 129201, "ON", 0, "U", FALSE>>, <<129280, 129619, "ON", 0, "U", FALSE>>,
    <<129632, 129645, "ON", 0, "U", FALSE>>, <<129648, 129660, "ON", 0, "U", FALSE>>,
    <<129664, 129672, "ON", 0, "U", FALSE>>, <<129680, 129725, "ON", 0, "U", FALSE>>,
    <<129727, 129733, "ON", 0, "U", FALSE>>, <<129742, 129755, "ON", 0, "U", FALSE>>,
    <<129760, 129768, "ON", 0, "U", FALSE>>, <<129776, 129784, "ON", 0, "U", FALSE>>,
    <<129792, 129938, "ON", 0, "U", FALSE>>, <<129940, 129994, "ON", 0, "U", FALSE>>,
    <<131072, 173791, "L", 0, "U", FALSE>>, <<173824, 177977, "L", 0, "U", FALSE>>,
    <<177984, 178205, "L", 0, "U", FALSE>>, <<178208, 183969, "L", 0, "U", FALSE>>,
    <<183984, 191456, "L", 0, "U", FALSE>>, <<191472, 192093, "L", 0, "U", FALSE>>,
    <<196608, 201546, "L", 0, "U", FALSE>>, <<201552, 205743, "L", 0, "U", FALSE>> >>

\* the composites of normalization form C with their two parts:
\* <<composite, first, second>>
COMPOSITES == {
    <<224, 97, 768>>, <<225, 97, 769>>, <<226, 97, 770>>, <<227, 97, 771>>, <<228, 97, 776>>,
    <<229, 97, 778>>, <<231, 99, 807>>, <<232, 101, 768>>, <<233, 101, 769>>, <<234, 101, 770>>,
    <<235, 101, 776>>, <<236, 105, 768>>, <<237, 105, 769>>, <<238, 105, 770>>, <<239, 105, 776>>,
    <<241, 110, 771>>, <<242, 111, 768>>, <<243, 111, 769>>, <<244, 111, 770>>, <<245, 111, 771>>,
    <<246, 111, 776>>, <<249, 117, 768>>, <<250, 117, 769>>, <<251, 117, 770>>, <<252, 117, 776>>,
    <<253, 121, 769>>, <<255, 121, 776>>, <<257, 97, 772>>, <<259, 97, 774>>, <<261, 97, 808>>,
    <<263, 99, 769>>, <<265, 99, 770>>, <<267, 99, 775>>, <<269, 99, 780>>, <<271, 100, 780>>,
    <<275, 101, 772>>, <<277, 101, 774>>, <<279, 101, 775>>, <<281, 101, 808>>, <<283, 101, 780>>,
    <<285, 103, 770>>, <<287, 103, 774>>, <<289, 103, 775>>, <<291, 103, 807>>, <<293, 104, 770>>,
    <<297, 105, 771>>, <<299, 105, 772>>, <<301, 105, 774>>, <<303, 105, 808>>, <<309, 106, 770>>,
    <<311, 107, 807>>, <<314, 108, 769>>, <<316, 108, 807>>, <<318, 108, 780>>, <<324, 110, 769>>,
    <<326, 110, 807>>, <<328, 110, 780>>, <<333, 111, 772>>, <<335, 111, 774>>, <<337, 111, 779>>,
    <<341, 114, 769>>, <<343, 114, 807>>, <<345, 114, 780>>, <<347, 115, 769>>, <<349, 115, 770>>,
    <<351, 115, 807>>, <<353, 115, 780>>, <<355, 116, 807>>, <<357, 116, 780>>, <<361, 117, 771>>,
    <<363, 117, 772>>, <<365, 117, 774>>, <<367, 117, 778>>, <<369, 117, 779>>, <<371, 117, 808>>,
    <<373, 119, 770>>, <<375, 121, 770>>, <<378, 122, 769>>, <<380, 122, 775>>, <<382, 122, 780>>,
    <<417, 111, 795>>, <<432, 117, 795>>, <<462, 97, 780>>, <<464, 105, 780>>, <<466, 111, 780>>,
    <<468, 117, 780>>, <<470, 252, 772>>, <<472, 252, 769>>, <<474, 252, 780>>, <<476, 252, 768>>,
    <<479, 228, 772>>, <<481, 551, 772>>, <<483, 230, 772>>, <<487, 103, 780>>, <<489, 107, 780>>,
    <<491, 111, 808>>, <<493, 491, 772>>, <<495, 658, 780>>, <<496, 106, 780>>, <<501, 103, 769>>,
    <<505, 110, 768>>, <<507, 229, 769>>, <<509, 230, 769>>, <<511, 248, 769>>, <<513, 97, 783>>,
    <<515, 97, 785>>, <<517, 101, 783>>, <<519, 101, 785>>, <<521, 105, 783>>, <<523, 105, 785>>,
    <<525, 111, 783>>, <<527, 111, 785>>, <<529, 114, 783>>, <<531, 114, 785>>, <<533, 117, 783>>,
    <<535, 117, 785>>, <<537, 115, 806>>, <<539, 116, 806>>, <<543, 104, 780>>, <<551, 97, 775>>,
    <<553, 101, 807>>, <<555, 246, 772>>, <<557, 245, 772>>, <<559, 111, 775>>, <<561, 559, 772>>,
    <<563, 121, 772>>, <<912, 970, 769>>, <<940, 945, 769>>, <<941, 949, 769>>, <<942, 951, 769>>,
    <<943, 953, 769>>, <<944, 971, 769>>, <<970, 953, 776>>, <<971, 965, 776>>, <<972, 959, 769>>,
    <<973, 965, 769>>, <<974, 969, 769>>, <<1081, 1080, 774>>, <<1104, 1077, 768>>,
    <<1105, 1077, 776>>, <<1107, 1075, 769>>, <<1111, 1110, 776>>, <<1116, 1082, 769>>,
    <<1117, 1080, 768>>, <<1118, 1091, 774>>, <<1143, 1141, 783>>, <<1218, 1078, 774>>,
    <<1233, 1072, 774>>, <<1235, 1072, 776>>, <<1239, 1077, 774>>, <<1243, 1241, 776>>,
    <<1245, 1078, 776>>, <<1247, 1079, 776>>, <<1251, 1080, 772>>, <<1253, 1080, 776>>,
    <<1255, 1086, 776>>, <<1259, 1257, 776>>, <<1261, 1101, 776>>, <<1263, 1091, 772>>,
    <<1265, 1091, 776>>, <<1267, 1091, 779>>, <<1269, 1095, 776>>, <<1273, 1099, 776>>,
    <<1570, 1575, 1619>>, <<1571, 1575, 1620>>, <<1572, 1608, 1620>>, <<1573, 1575, 1621>>,
    <<1574, 1610, 1620>>, <<1728, 1749, 1620>>, <<1730, 1729, 1620>>, <<1747, 1746, 1620>>,
    <<2345, 2344, 2364>>, <<2353, 2352, 2364>>, <<2356, 2355, 2364>>, <<2507, 2503, 2494>>,
    <<2508, 2503, 2519>>, <<2888, 2887, 2902>>, <<2891, 2887, 2878>>, <<2892, 2887, 2903>>,
    <<2964, 2962, 3031>>, <<3018, 3014, 3006>>, <<3019, 3015, 3006>>, <<3020, 3014, 3031>>,
    <<3144, 3142, 3158>>, <<3264, 3263, 3285>>, <<3271, 3270, 3285>>, <<3272, 3270, 3286>>,
    <<3274, 3270, 3266>>, <<3275, 3274, 3285>>, <<3402, 3398, 3390>>, <<3403, 3399, 3390>>,
    <<3404, 3398, 3415>>, <<3546, 3545, 3530>>, <<3548, 3545, 3535>>, <<3549, 3548, 3530>>,
    <<3550, 3545, 3551>>, <<4134, 4133, 4142>>, <<6918, 6917, 6965>>, <<6920, 6919, 6965>>,
    <<6922, 6921, 6965>>, <<6924, 6923, 6965>>, <<6926, 6925, 6965>>, <<6930, 6929, 6965>>,
    <<6971, 6970, 6965>>, <<6973, 6972, 6965>>, <<6976, 6974, 6965>>, <<6977, 6975, 6965>>,
    <<6979, 6978, 6965>>, <<7681, 97, 805>>, <<7683, 98, 775>>, <<7685, 98, 803>>,
    <<7687, 98, 817>>, <<7689, 231, 769>>, <<7691, 100, 775>>, <<7693, 100, 803>>,
    <<7695, 100, 817>>, <<7697, 100, 807>>, <<7699, 100, 813>>, <<7701, 275, 768>>,
    <<7703, 275, 769>>, <<7705, 101, 813>>, <<7707, 101, 816>>, <<7709, 553, 774>>,
    <<7711, 102, 775>>, <<7713, 103, 772>>, <<7715, 104, 775>>, <<7717, 104, 803>>,
    <<7719, 104, 776>>, <<7721, 104, 807>>, <<7723, 104, 814>>, <<7725, 105, 816>>,
    <<7727, 239, 769>>, <<7729, 107, 769>>, <<7731, 107, 803>>, <<7733, 107, 817>>,
    <<7735, 108, 803>>, <<7737, 7735, 772>>, <<7739, 108, 817>>, <<7741, 108, 813>>,
    <<7743, 109, 769>>, <<7745, 109, 775>>, <<7747, 109, 803>>, <<7749, 110, 775>>,
    <<7751, 110, 803>>, <<7753, 110, 817>>, <<7755, 110, 813>>, <<7757, 245, 769>>,
    <<7759, 245, 776>>, <<7761, 333, 768>>, <<7763, 333, 769>>, <<7765, 112, 769>>,
    <<7767, 112, 775>>, <<7769, 114, 775>>, <<7771, 114, 803>>, <<7773, 7771, 772>>,
    <<7775, 114, 817>>, <<7777, 115, 775>>, <<7779, 115, 803>>, <<7781, 347, 775>>,
    <<7783, 353, 775>>, <<7785, 7779, 775>>, <<7787, 116, 775>>, <<7789, 116, 803>>,
    <<7791, 116, 817>>, <<7793, 116, 813>>, <<7795, 117, 804>>, <<7797, 117, 816>>,
    <<7799, 117, 813>>, <<7801, 361, 769>>, <<7803, 363, 776>>, <<7805, 118, 771>>,
    <<7807, 118, 803>>, <<7809, 119, 768>>, <<7811, 119, 769>>, <<7813, 119, 776>>,
    <<7815, 119, 775>>, <<7817, 119, 803>>, <<7819, 120, 775>>, <<7821, 120, 776>>,
    <<7823, 121, 775>>, <<7825, 122, 770>>, <<7827, 122, 803>>, <<7829, 122, 817>>,
    <<7830, 104, 817>>, <<7831, 116, 776>>, <<7832, 119, 778>>, <<7833, 121, 778>>,
    <<7841, 97, 803>>, <<7843, 97, 777>>, <<7845, 226, 769>>, <<7847, 226, 768>>,
    <<7849, 226, 777>>, <<7851, 226, 771>>, <<7853, 7841, 770>>, <<7855, 259, 769>>,
    <<7857, 259, 768>>, <<7859, 259, 777>>, <<7861, 259, 771>>, <<7863, 7841, 774>>,
    <<7865, 101, 803>>, <<7867, 101, 777>>, <<7869, 101, 771>>, <<7871, 234, 769>>,
    <<7873, 234, 768>>, <<7875, 234, 777>>, <<7877, 234, 771>>, <<7879, 7865, 770>>,
    <<7881, 105, 777>>, <<7883, 105, 803>>, <<7885, 111, 803>>, <<7887, 111, 777>>,
    <<7889, 244, 769>>, <<7891, 244, 768>>, <<7893, 244, 777>>, <<7895, 244, 771>>,
    <<7897, 7885, 770>>, <<7899, 417, 769>>, <<7901, 417, 768>>, <<7903, 417, 777>>,
    <<7905, 417, 771>>, <<7907, 417, 803>>, <<7909, 117, 803>>, <<7911, 117, 777>>,
    <<7913, 432, 769>>, <<7915, 432, 768>>, <<7917, 432, 777>>, <<7919, 432, 771>>,
    <<7921, 432, 803>>, <<7923, 121, 768>>, <<7925, 121, 803>>, <<7927, 121, 777>>,
    <<7929, 121, 771>>, <<7936, 945, 787>>, <<7937, 945, 788>>, <<7938, 7936, 768>>,
    <<7939, 7937, 768>>, <<7940, 7936, 769>>, <<7941, 7937, 769>>, <<7942, 7936, 834>>,
    <<7943, 7937, 834>>, <<7952, 949, 787>>, <<7953, 949, 788>>, <<7954, 7952, 768>>,
    <<7955, 7953, 768>>, <<7956, 7952, 769>>, <<7957, 7953, 769>>, <<7968, 951, 787>>,
    <<7969, 951, 788>>, <<7970, 7968, 768>>, <<7971, 7969, 768>>, <<7972, 7968, 769>>,
    <<7973, 7969, 769>>, <<7974, 7968, 834>>, <<7975, 7969, 834>>, <<7984, 953, 787>>,
    <<7985, 953, 788>>, <<7986, 7984, 768>>, <<7987, 7985, 768>>, <<7988, 7984, 769>>,
    <<7989, 7985, 769>>, <<7990, 7984, 834>>, <<7991, 7985, 834>>, <<8000, 959, 787>>,
    <<8001, 959, 788>>, <<8002, 8000, 768>>, <<8003, 8001, 768>>, <<8004, 8000, 769>>,
    <<8005, 8001, 769>>, <<8016, 965, 787>>, <<8017, 965, 788>>, <<8018, 8016, 768>>,
    <<8019, 8017, 768>>, <<8020, 8016, 769>>, <<8021, 8017, 769>>, <<8022, 8016, 834>>,
    <<8023, 8017, 834>>, <<8032, 969, 787>>, <<8033, 969, 788>>, <<8034, 8032, 768>>,
    <<8035, 8033, 768>>, <<8036, 8032, 769>>, <<8037, 8033, 769>>, <<8038, 8032, 834>>,
    <<8039, 8033, 834>>, <<8048, 945, 768>>, <<8050, 949, 768>>, <<8052, 951, 768>>,
    <<8054, 953, 768>>, <<8056, 959, 768>>, <<8058, 965, 768>>, <<8060, 969, 768>>,
    <<8112, 945, 774>>, <<8113, 945, 772>>, <<8118, 945, 834>>, <<8134, 951, 834>>,
    <<8144, 953, 774>>, <<8145, 953, 772>>, <<8146, 970, 768>>, <<8150, 953, 834>>,
    <<8151, 970, 834>>, <<8160, 965, 774>>, <<8161, 965, 772>>, <<8162, 971, 768>>,
    <<8164, 961, 787>>, <<8165, 961, 788>>, <<8166, 965, 834>>, <<8167, 971, 834>>,
    <<8182, 969, 834>>, <<8602, 8592, 824>>, <<8603, 8594, 824>>, <<8622, 8596, 824>>,
    <<8653, 8656, 824>>, <<8654, 8660, 824>>, <<8655, 8658, 824>>, <<8708, 8707, 824>>,
    <<8713, 8712, 824>>, <<8716, 8715, 824>>, <<8740, 8739, 824>>, <<8742, 8741, 824>>,
    <<8769, 8764, 824>>, <<8772, 8771, 824>>, <<8775, 8773, 824>>, <<8777, 8776, 824>>,
    <<8800, 61, 824>>, <<8802, 8801, 824>>, <<8813, 8781, 824>>, <<8814, 60, 824>>,
    <<8815, 62, 824>>, <<8816, 8804, 824>>, <<8817, 8805, 824>>, <<8820, 8818, 824>>,
    <<8821, 8819, 824>>, <<8824, 8822, 824>>, <<8825, 8823, 824>>, <<8832, 8826, 824>>,
    <<8833, 8827, 824>>, <<8836, 8834, 824>>, <<8837, 8835, 824>>, <<8840, 8838, 824>>,
    <<8841, 8839, 824>>, <<8876, 8866, 824>>, <<8877, 8872, 824>>, <<8878, 8873, 824>>,
    <<8879, 8875, 824>>, <<8928, 8828, 824>>, <<8929, 8829, 824>>, <<8930, 8849, 824>>,
    <<8931, 8850, 824>>, <<8938, 8882, 824>>, <<8939, 8883, 824>>, <<8940, 8884, 824>>,
    <<8941, 8885, 824>>, <<12364, 12363, 12441>>, <<12366, 12365, 12441>>, <<12368, 12367, 12441>>,
    <<12370, 12369, 12441>>, <<12372, 12371, 12441>>, <<12374, 12373, 12441>>,
    <<12376, 12375, 12441>>, <<12378, 12377, 12441>>, <<12380, 12379, 12441>>,
    <<12382, 12381, 12441>>, <<12384, 12383, 12441>>, <<12386, 12385, 12441>>,
    <<12389, 12388, 12441>>, <<12391, 12390, 12441>>, <<12393, 12392, 12441>>,
    <<12400, 12399, 12441>>, <<12401, 12399, 12442>>, <<12403, 12402, 12441>>,
    <<12404, 12402, 12442>>, <<12406, 12405, 12441>>, <<12407, 12405, 12442>>,
    <<12409, 12408, 12441>>, <<12410, 12408, 12442>>, <<12412, 12411, 12441>>,
    <<12413, 12411, 12442>>, <<12436, 12358, 12441>>, <<12446, 12445, 12441>>,
    <<12460, 12459, 12441>>, <<12462, 12461, 12441>>, <<12464, 12463, 12441>>,
    <<12466, 12465, 12441>>, <<12468, 12467, 12441>>, <<12470, 12469, 12441>>,
    <<12472, 12471, 12441>>, <<12474, 12473, 12441>>, <<12476, 12475, 12441>>,
    <<12478, 12477, 12441>>, <<12480, 12479, 12441>>, <<12482, 12481, 12441>>,
    <<12485, 12484, 12441>>, <<12487, 12486, 12441>>, <<12489, 12488, 12441>>,
    <<12496, 12495, 12441>>, <<12497, 12495, 12442>>, <<12499, 12498, 12441>>,
    <<12500, 12498, 12442>>, <<12502, 12501, 12441>>, <<12503, 12501, 12442>>,
    <<12505, 12504, 12441>>, <<12506, 12504, 12442>>, <<12508, 12507, 12441>>,
    <<12509, 12507, 12442>>, <<12532, 12454, 12441>>, <<12535, 12527, 12441>>,
    <<12536, 12528, 12441>>, <<12537, 12529, 12441>>, <<12538, 12530, 12441>>,
    <<12542, 12541, 12441>>, <<69786, 69785, 69818>>, <<69788, 69787, 69818>>,
    <<69803, 69797, 69818>>, <<69934, 69937, 69927>>, <<69935, 69938, 69927>>,
    <<70475, 70471, 70462>>, <<70476, 70471, 70487>>, <<70843, 70841, 70842>>,
    <<70844, 70841, 70832>>, <<70846, 70841, 70845>>, <<71098, 71096, 71087>>,
    <<71099, 71097, 71087>>, <<71992, 71989, 71984>> }

\* the row of data, which is UNICODE_DATA, of a code point, between the
\* rows low and high; a code point that is not valid in a label has the
\* Bidi class ""
RECURSIVE RowBetween(_, _, _, _)
RowBetween(data, cp, low, high) ==
    IF low > high THEN <<cp, cp, "", 0, "U", FALSE>>
    ELSE LET mid == (low + high) \div 2
         IN  IF cp < data[mid][1] THEN RowBetween(data, cp, low, mid - 1)
             ELSE IF cp > data[mid][2] THEN RowBetween(data, cp, mid + 1, high)
             ELSE data[mid]

\* the characters of code points: <<code point, Bidi class, canonical
\* combining class, joining type, is a mark>>
Chars(cps) ==
    [i \in 1..Len(cps) |->
        <<cps[i]>> \o SubSeq(RowBetween(UNICODE_DATA, cps[i], 1, Len(UNICODE_DATA)), 3, 6)]

\* the canonical decomposition of code points: of a Hangul syllable its
\* jamo, of a composite the decomposition of its two parts
RECURSIVE Decompose(_)
Decompose(cps) ==
    IF cps = << >> THEN << >>
    ELSE LET cp == Head(cps)
             s == cp - 44032
         IN  (IF cp >= 44032 /\ cp < 55204
              THEN <<4352 + (s \div 588), 4449 + ((s % 588) \div 28)>>
                   \o (IF s % 28 = 0 THEN << >> ELSE <<4519 + (s % 28)>>)
              ELSE IF \E row \in COMPOSITES : row[1] = cp
              THEN Decompose(SubSeq(CHOOSE row \in COMPOSITES : row[1] = cp, 2, 3))
              ELSE <<cp>>)
             \o Decompose(Tail(cps))

\* the canonical ordering of characters: each is put behind the marks of
\* out that do not have a higher canonical combining class
RECURSIVE CanonicalOrder(_, _)
CanonicalOrder(chars, out) ==
    LET RECURSIVE Ordered(_, _)
        Ordered(before, char) ==
            IF char[3] = 0 \/ before = << >> THEN Append(before, char)
            ELSE IF Last(before)[3] <= char[3] THEN Append(before, char)
            ELSE Append(Ordered(SubSeq(before, 1, Len(before) - 1), char), Last(before))
    IN  IF chars = << >> THEN out
        ELSE CanonicalOrder(Tail(chars), Ordered(out, Head(chars)))

\* the primary composite of two code points, 0 when there is none
Composite(a, b) ==
    IF a >= 4352 /\ a < 4371 /\ b >= 4449 /\ b < 4470
    THEN 44032 + ((a - 4352) * 21 + (b - 4449)) * 28
    ELSE IF a >= 44032 /\ a < 55204 /\ (a - 44032) % 28 = 0 /\ b > 4519 /\ b < 4547
    THEN a + (b - 4519)
    ELSE IF \E row \in COMPOSITES : row[2] = a /\ row[3] = b
    THEN (CHOOSE row \in COMPOSITES : row[2] = a /\ row[3] = b)[1]
    ELSE 0

\* the canonical composition, as code points: a character that is not
\* blocked from the last starter is composed with it; starter is the
\* position of the last starter of out (0 for none), last the canonical
\* combining class of the last character of out
RECURSIVE Composed(_, _, _, _)
Composed(rest, out, starter, last) ==
    LET char == Head(rest)
        composite == IF /\ starter > 0
                        /\ (Len(out) = starter \/ (last # 0 /\ last < char[3]))
                     THEN Composite(out[starter][1], char[1]) ELSE 0
    IN  IF rest = << >> THEN [i \in 1..Len(out) |-> out[i][1]]
        ELSE IF composite # 0
        THEN Composed(Tail(rest), [out EXCEPT ![starter][1] = composite], starter, last)
        ELSE Composed(Tail(rest), Append(out, char),
                      IF char[3] = 0 THEN Len(out) + 1 ELSE starter, char[3])

\* the Bidi rule of RFC 5893 for the characters of a label of a host that
\* has a character written from right to left
BidiRule(chars) ==
    \/ chars = << >>
    \/ /\ chars[1][2] = "L"
       /\ \A i \in 1..Len(chars) : chars[i][2] \notin {"R", "AN"}
       /\ \E i \in 1..Len(chars) :
              /\ chars[i][2] \in {"L", "EN"}
              /\ \A k \in (i + 1)..Len(chars) : chars[k][2] = "NSM"
    \/ /\ chars[1][2] = "R"
       /\ \A i \in 1..Len(chars) : chars[i][2] # "L"
       /\ \E i \in 1..Len(chars) :
              /\ chars[i][2] \in {"R", "EN", "AN"}
              /\ \A k \in (i + 1)..Len(chars) : chars[k][2] = "NSM"
       /\ ~(\E i, j \in 1..Len(chars) : chars[i][2] = "EN" /\ chars[j][2] = "AN")

\* the characters of a label: Some(chars), or None for a label in
\* punycode that is not valid; decoded are its code points, or None.  A
\* label in punycode decodes to at most 1000 code points, which are valid,
\* in normalization form C, not all ASCII and do not start with a mark, and
\* keeps the rule of RFC 5892 for the joiners: ZERO WIDTH JOINER (8205) and
\* ZERO WIDTH NON-JOINER (8204) follow a virama, or the non-joiner stands
\* between two joining letters, marks that are transparent apart
LabelChars(punycode, decoded, chars) ==
    IF decoded = None THEN None
    ELSE IF ~punycode THEN Some(chars)
    ELSE IF /\ Len(chars) <= 1000
            /\ \E i \in 1..Len(chars) : chars[i][1] >= 128
            /\ \A i \in 1..Len(chars) : chars[i][2] # ""
            /\ ~chars[1][5]
            /\ Composed(CanonicalOrder(Chars(Decompose(decoded[1])), << >>), << >>, 0, 0)
               = decoded[1]
            /\ \A i \in 1..Len(chars) :
                   chars[i][1] \in {8204, 8205} =>
                       \/ i > 1 /\ chars[i - 1][3] = 9
                       \/ /\ chars[i][1] = 8204
                          /\ \E j \in 1..(i - 1) :
                                 /\ chars[j][4] \in {"L", "D"}
                                 /\ \A k \in (j + 1)..(i - 1) : chars[k][4] = "T"
                          /\ \E j \in (i + 1)..Len(chars) :
                                 /\ chars[j][4] \in {"R", "D"}
                                 /\ \A k \in (i + 1)..(j - 1) : chars[k][4] = "T"
    THEN Some(chars)
    ELSE None

\* the characters of each label of a host, None for a label that is not
\* valid; a label in punycode with more than 2000 characters behind the
\* xn-- is refused before it is decoded
RECURSIVE HostChars(_)
HostChars(labels) ==
    LET label == Head(labels)
        punycode == StartsWith(label, "xn--")
        decoded == IF ~punycode THEN Some(CodePoints(label))
                   ELSE IF Len(label) - 4 > 2000 THEN None
                   ELSE decode(From(label, 5))
    IN  IF labels = << >> THEN << >>
        ELSE <<LabelChars(punycode, decoded, Chars(decoded[1]))>>
             \o HostChars(Tail(labels))

\* the labels of a host that has a label in punycode are valid, for the
\* characters of each label; with a character that is written from right
\* to left in one of them, every label keeps the Bidi rule
ValidLabels(labels) ==
    /\ \A i \in 1..Len(labels) : labels[i] # None
    /\ (\E i \in 1..Len(labels) : \E j \in 1..Len(labels[i][1]) :
            labels[i][1][j][2] \in {"R", "AN"})
       => \A i \in 1..Len(labels) : BidiRule(labels[i][1])

-----------------------------------------------------------------------------
(* pydantic: HttpUrl *)

HEX_DIGITS == "0123456789abcdef"

\* the number a part of an IPv4 host spells in the given base, as
\* <<high 16 bits, low 16 bits>>; the high half stops at 65536, which
\* stands for every number of 2^32 or more
RECURSIVE ParseNumber(_, _, _)
ParseNumber(s, base, acc) ==
    IF s = "" THEN acc
    ELSE LET low == acc[2] * base + (Find(HEX_DIGITS, Char(s, 1)) - 1)
             high == acc[1] * base + (low \div 65536)
         IN  ParseNumber(From(s, 2), base,
                         <<IF high > 65536 THEN 65536 ELSE high, low % 65536>>)

\* the number the digits spell in the base, when all of them are allowed
NumberIn(digits, allowed, base) ==
    IF AllIn(digits, allowed)
    THEN [number |-> ParseNumber(digits, base, <<0, 0>>), ok |-> TRUE]
    ELSE [number |-> <<0, 0>>, ok |-> FALSE]

\* a part of an IPv4 host: 0x and hexadecimal digits, 0 and octal digits,
\* or decimal digits: [number, ok]
Ipv4Number(part) ==
    IF part = "" THEN [number |-> <<0, 0>>, ok |-> FALSE]
    ELSE IF StartsWith(part, "0x") THEN NumberIn(From(part, 3), HEX_DIGITS, 16)
    ELSE IF Len(part) >= 2 /\ StartsWith(part, "0")
    THEN NumberIn(From(part, 2), "01234567", 8)
    ELSE NumberIn(part, DIGITS, 10)

\* the labels of a host, without the empty label a final dot leaves
HostParts(host) ==
    IF Len(Split(host, ".")) > 1 /\ Last(Split(host, ".")) = ""
    THEN SubSeq(Split(host, "."), 1, Len(Split(host, ".")) - 1)
    ELSE Split(host, ".")

\* a host whose last label is a number is an IPv4 address
EndsInNumber(host) ==
    /\ Last(HostParts(host)) # ""
    /\ \/ AllIn(Last(HostParts(host)), DIGITS)
       \/ Ipv4Number(Last(HostParts(host))).ok

RECURSIVE IntToStr(_)
IntToStr(n) ==
    IF n < 10 THEN Char(DIGITS, n + 1)
    ELSE IntToStr(n \div 10) \o Char(DIGITS, (n % 10) + 1)

\* the result of a host that is not valid
InvalidHost == [host |-> "", ok |-> FALSE]

\* the IPv4 address of the numbers of the parts, last the number of the
\* last part, which fills the bytes the other parts leave
Ipv4Address(numbers, last) ==
    LET n == Len(numbers)
        bytes == <<last[1] \div 256, last[1] % 256, last[2] \div 256, last[2] % 256>>
        Fits == CASE n = 1 -> last[1] < 65536
                  [] n = 2 -> last[1] < 256
                  [] n = 3 -> last[1] = 0
                  [] OTHER -> last[1] = 0 /\ last[2] < 256
    IN  IF ~Fits THEN InvalidHost
        ELSE [host |-> Join([i \in 1..4 |->
                                IntToStr(IF i < n THEN numbers[i].number[2]
                                         ELSE bytes[i])], "."),
              ok |-> TRUE]

\* the IPv4 address a host spells, in dotted decimal: [host, ok]
Ipv4(host) ==
    LET parts == HostParts(host)
        numbers == [i \in 1..Len(parts) |-> Ipv4Number(parts[i])]
    IN  IF Len(parts) > 4 THEN InvalidHost
        ELSE IF \E i \in 1..Len(numbers) : ~numbers[i].ok THEN InvalidHost
        ELSE IF \E i \in 1..(Len(numbers) - 1) :
                    numbers[i].number[1] > 0 \/ numbers[i].number[2] > 255
        THEN InvalidHost
        ELSE Ipv4Address(numbers, numbers[Len(numbers)].number)

\* the host of a url, for the host in lower case: [host, ok]; the labels
\* of a host with a label in punycode (xn--) are checked and stay as they
\* are written, and an IPv4 address is written in dotted decimal
ParseLowerHost(host) ==
    IF host = "" THEN InvalidHost
    ELSE IF /\ Contains("." \o host, ".xn--")
            /\ ~ValidLabels(HostChars(Split(host, ".")))
    THEN InvalidHost
    ELSE IF EndsInNumber(host) THEN Ipv4(host)
    ELSE [host |-> host, ok |-> TRUE]

\* the port of a url as it is written in the result: [ok, port], port ""
\* when absent or the scheme's own; digits are the digits of the port
\* without the leading zeros
ParsePort(text, scheme) ==
    LET digits == LStrip(text, "0")
        port == IF digits = "" THEN 0 ELSE ToInt(digits)
    IN  IF text = "" THEN [ok |-> TRUE, port |-> ""]
        ELSE IF ~AllIn(text, DIGITS) THEN [ok |-> FALSE, port |-> ""]
        ELSE IF Len(digits) > 5 THEN [ok |-> FALSE, port |-> ""]
        ELSE IF port > 65535 THEN [ok |-> FALSE, port |-> ""]
        ELSE IF port = (IF scheme = "https" THEN 443 ELSE 80)
        THEN [ok |-> TRUE, port |-> ""]
        ELSE [ok |-> TRUE, port |-> ":" \o IntToStr(port)]

\* the path of a url without its "." and ".." segments; pieces are the
\* segments as written, path the segments kept so far
RECURSIVE RemoveDotSegments(_, _)
RemoveDotSegments(pieces, path) ==
    IF pieces = << >> THEN path
    ELSE LET piece == Head(pieces)
             is_last == Len(pieces) = 1
             popped == IF path = << >> THEN path ELSE SubSeq(path, 1, Len(path) - 1)
             kept == CASE piece = ".." -> IF is_last THEN Append(popped, "") ELSE popped
                       [] piece = "." -> IF is_last THEN Append(path, "") ELSE path
                       [] OTHER -> Append(path, piece)
         IN  RemoveDotSegments(Tail(pieces), kept)

\* the path of a url as it is written in the result
NormalPath(written) ==
    "/" \o Join(RemoveDotSegments(
                    Split(IF StartsWith(written, "/") THEN From(written, 2) ELSE written,
                          "/"),
                    << >>), "/")

\* s cut before the first t: the second piece starts with t and is "" when
\* there is no t
CutBefore(s, t) ==
    LET i == Find(s, t)
    IN  IF i = 0 THEN <<s, "">> ELSE <<SubSeq(s, 1, i - 1), From(s, i)>>

\* the result where pydantic raises ValidationError
InvalidUrl == [ok |-> FALSE, url |-> ""]

\* HttpUrl: the str of the url of these parts
UrlOf(scheme, host, port, path, query, fragment) ==
    IF ~host.ok \/ ~port.ok THEN InvalidUrl
    ELSE [ok |-> TRUE,
          url |-> scheme \o "://" \o host.host \o port.port \o path \o query
                  \o fragment]

\* HttpUrl, for the authority and what follows it
HttpUrlAfterScheme(scheme, authority, after) ==
    LET host_port == SplitOnce(authority, ":")
        by_fragment == CutBefore(after, "#")
        by_query == CutBefore(by_fragment[1], "?")
    IN  UrlOf(scheme, ParseLowerHost(Lower(host_port[1])),
              ParsePort(host_port[2], scheme),
              NormalPath(by_query[1]), by_query[2], by_fragment[2])

\* HttpUrl: the validation of a str as an http or https url and the str of
\* the result: [ok, url]; ok is FALSE where pydantic raises ValidationError.
\* The scheme ends before the first ":", and the authority before the
\* first "/", "?" or "#" behind the slashes that follow the scheme.  A str
\* of more than 2083 characters is refused (max_length of HttpUrl, counted
\* on the str that is validated, not on the url it is written as)
HttpUrl(s) ==
    LET colon == Find(s, ":")
        scheme == Lower(SubSeq(s, 1, colon - 1))
        rest == _splitnetloc(LStrip(From(s, colon + 1), "/"), 1)
    IN  IF Len(s) > 2083 THEN InvalidUrl
        ELSE IF ~IsScheme(s, colon) THEN InvalidUrl
        ELSE IF scheme \notin {"http", "https"} THEN InvalidUrl
        ELSE HttpUrlAfterScheme(scheme, rest.netloc, rest.url)

-----------------------------------------------------------------------------
(* tree.py: constants *)

PRIORITY_KEYWORDS ==
    << "product", "services", "catalog", "category", "shop", "blog", "article",
       "news", "post", "about", "contact", "price", "buy", "order", "cases" >>

DENIED_EXTENSIONS ==
    << ".php", ".asp", ".aspx", ".jsp", ".cgi", ".pdf", ".doc", ".docx",
       ".xls", ".xlsx", ".zip", ".rar", ".tar", ".gz", ".jpg", ".jpeg",
       ".png", ".gif", ".bmp", ".svg", ".webp", ".mp4", ".avi", ".mov",
       ".wmv", ".mp3", ".wav", ".ogg", ".css", ".js", ".json", ".xml" >>

-----------------------------------------------------------------------------
(* tree.py: parse_url_path, TreeNode, add_page_to_tree *)

\* Values a sitemap page can carry as last_modified, by Python type.
NoneValue == [dt |-> Datetime(0, 0, 0, FALSE), str |-> "", type |-> "NoneType"]
StrValue(s) == [dt |-> Datetime(0, 0, 0, FALSE), str |-> s, type |-> "str"]

NonEmpty(parts) == SelectSeq(parts, LAMBDA p : p # "")

\* parse_url_path changed to keep the empty segments of the split
parse_url_path_KeepsEmpty(url) == Split(Strip(urlparse(url).path, "/"), "/")

parse_url_path(url) == NonEmpty(Split(Strip(urlparse(url).path, "/"), "/"))

\* validate_last_modified changed to keep a value for an unparsable string
validate_last_modified_KeepsBadString(value) ==
    IF value.type = "NoneType" \/ (value.type = "str" /\ value.str = "") THEN None
    ELSE IF value.type = "str" THEN Some(FromIsoFormat(value.str).value)
    ELSE Some(value.dt)

\* lines 91-94: the datetime that was parsed, None when fromisoformat raised
ParsedOrNone(parsed) == IF parsed.ok THEN Some(parsed.value) ELSE None

\* TreeNode.validate_last_modified (mode="before")
validate_last_modified(value) ==
    IF value.type = "NoneType" \/ (value.type = "str" /\ value.str = "") THEN None
    ELSE IF value.type = "str" THEN ParsedOrNone(FromIsoFormat(value.str))
    ELSE Some(value.dt)

\* the TreeNode of the validated fields, http_url being HttpUrl(url)
ValidatedNode(name, http_url, priority, last_modified) ==
    [node |-> [children |-> << >>, last_modified |-> last_modified,
               name |-> name, priority |-> priority, url |-> http_url.url],
     raised |-> ~http_url.ok]

\* TreeNode.model_validate({...}) / TreeNode(name=..., url=...): [raised,
\* node]; raised where the url fails its validation (ValidationError); the
\* node carries the url as HttpUrl gives it back
TreeNode(name, url, priority, last_modified) ==
    ValidatedNode(name, HttpUrl(url), priority, validate_last_modified(last_modified))

\* FindChild changed to skip the lookup: every segment makes a new node
FindChild_NoLookup(root, segment) == 0

\* lines 216-218: index of the first child of root named segment, 0 when
\* there is none
FindChild(root, segment) ==
    IF \E i \in 1..Len(root.children) : root.children[i].name = segment
    THEN CHOOSE i \in 1..Len(root.children) :
            /\ root.children[i].name = segment
            /\ \A j \in 1..(i - 1) : root.children[j].name # segment
    ELSE 0

RECURSIVE add_page_to_tree(_, _, _, _, _)

\* line 229 for a child that was found: the node root with the child at
\* found replaced by below.root, the child after the insertion below it
WithChild(root, found, below) ==
    [raised |-> below.raised,
     root |-> [root EXCEPT !.children[found] = below.root]]

\* lines 222-229: created is the result of TreeNode.model_validate; lines
\* 228-229 for the child that was created: the node root with below.root,
\* the new child after the insertion below it, appended
AppendCreated(base_url, root, page, segments, current_depth, created) ==
    LET WithNewChild(below) ==
            [raised |-> below.raised,
             root |-> [root EXCEPT !.children = Append(@, below.root)]]
    IN  IF created.raised THEN [raised |-> TRUE, root |-> root]
        ELSE WithNewChild(add_page_to_tree(base_url, created.node, page, segments,
                                           current_depth + 1))

\* lines 219-227: the node of segments[: current_depth + 1] is created, its
\* url written as full_url, the base and path_part
CreateChild(base_url, root, page, segments, current_depth) ==
    AppendCreated(base_url, root, page, segments, current_depth,
                  TreeNode(segments[current_depth + 1],
                           RStrip(base_url, "/") \o "/"
                               \o Join(SubSeq(segments, 1, current_depth + 1), "/"),
                           page.priority, page.last_modified))

\* add_page_to_tree changed to refresh the metadata of an existing node when
\* the page names exactly that node's path
RECURSIVE add_page_to_tree_Overwrites(_, _, _, _, _)
add_page_to_tree_Overwrites(base_url, root, page, segments, current_depth) ==
    IF current_depth >= Len(segments) THEN [raised |-> FALSE, root |-> root]
    ELSE IF FindChild(root, segments[current_depth + 1]) = 0
    THEN CreateChild(base_url, root, page, segments, current_depth)
    ELSE WithChild(root, FindChild(root, segments[current_depth + 1]),
                   add_page_to_tree_Overwrites(
                       base_url,
                       IF current_depth + 1 = Len(segments)
                       THEN [root.children[FindChild(root, Last(segments))]
                                 EXCEPT !.priority = page.priority,
                                        !.last_modified =
                                            validate_last_modified(page.last_modified)]
                       ELSE root.children[FindChild(root, segments[current_depth + 1])],
                       page, segments, current_depth + 1))

\* add_page_to_tree: [raised, root], the node root after the insertion of
\* page below it; raised where a new node fails its validation
add_page_to_tree(base_url, root, page, segments, current_depth) ==
    IF current_depth >= Len(segments) THEN [raised |-> FALSE, root |-> root]
    ELSE IF FindChild(root, segments[current_depth + 1]) = 0
    THEN CreateChild(base_url, root, page, segments, current_depth)
    ELSE WithChild(root, FindChild(root, segments[current_depth + 1]),
                   add_page_to_tree(
                       base_url,
                       root.children[FindChild(root, segments[current_depth + 1])],
                       page, segments, current_depth + 1))

\* build_site_tree, lines 238-239: the root node of the homepage url with
\* its name; url is an HttpUrl already and TreeNode takes it as it is
RootNode(url) ==
    ValidatedNode(Replace(Replace(Replace(url, "http://", ""), "https://", ""), "/", ""),
                  [ok |-> TRUE, url |-> url], None, None).node

-----------------------------------------------------------------------------
(* TreeNode methods *)

\* TreeNode.iter_nodes: the nodes in pre-order
RECURSIVE iter_nodes(_)
RECURSIVE IterForest(_)
iter_nodes(node) == <<node>> \o IterForest(node.children)
IterForest(nodes) ==
    IF nodes = << >> THEN << >>
    ELSE iter_nodes(Head(nodes)) \o IterForest(Tail(nodes))

is_leaf(node) == Len(node.children) = 0

iter_leaves(node) == SelectSeq(iter_nodes(node), is_leaf)

\* TreeNode.last_changed_node: [raised, node].  max() keeps the first node
\* of the greatest last_modified; comparing a naive with an aware datetime
\* raises TypeError.
\* MaxByLastModified changed to keep the last node of the greatest date
RECURSIVE MaxByLastModified_LastTie(_, _)
MaxByLastModified_LastTie(best, nodes) ==
    IF nodes = << >> THEN best
    ELSE IF ~After(best.last_modified[1], Head(nodes).last_modified[1])
         THEN MaxByLastModified_LastTie(Head(nodes), Tail(nodes))
         ELSE MaxByLastModified_LastTie(best, Tail(nodes))

\* MaxByLastModified changed to keep the first dated node
MaxByLastModified_First(best, nodes) == best

RECURSIVE MaxByLastModified(_, _)
MaxByLastModified(best, nodes) ==
    IF nodes = << >> THEN best
    ELSE IF After(Head(nodes).last_modified[1], best.last_modified[1])
         THEN MaxByLastModified(Head(nodes), Tail(nodes))
         ELSE MaxByLastModified(best, Tail(nodes))

HasDate(node) == node.last_modified # None

\* a > b on datetimes raises TypeError when exactly one of them is aware
AllComparable(nodes) ==
    \A i, j \in 1..Len(nodes) :
        nodes[i].last_modified[1].aware = nodes[j].last_modified[1].aware

last_changed_node(tree) ==
    LET nodes == SelectSeq(iter_nodes(tree), HasDate)
    IN  IF nodes = << >> THEN [node |-> None, raised |-> FALSE]
        ELSE IF ~AllComparable(nodes) THEN [node |-> None, raised |-> TRUE]
        ELSE [node |-> Some(MaxByLastModified(Head(nodes), Tail(nodes))),
              raised |-> FALSE]

-----------------------------------------------------------------------------
(* tree.py: helpers of extract_key_pages *)

_get_path_segments(url) == NonEmpty(Split(Strip(urlparse(url).path, "/"), "/"))

\* tuple comparison a < b
TupleLess(a, b) ==
    \E i \in 1..Len(a) : a[i] < b[i] /\ \A j \in 1..(i - 1) : a[j] = b[j]

\* list.sort(key=...): stable, ascending in the key.  keyed is the list of
\* [key, item] pairs; x goes in front of the first pair of a greater key.
RECURSIVE InsertSorted(_, _)
InsertSorted(x, s) ==
    IF s = << >> THEN <<x>>
    ELSE IF TupleLess(x.key, Head(s).key) THEN <<x>> \o s
    ELSE <<Head(s)>> \o InsertSorted(x, Tail(s))

RECURSIVE SortKeyed(_)
SortKeyed(keyed) ==
    IF keyed = << >> THEN << >>
    ELSE InsertSorted(Last(keyed), SortKeyed(SubSeq(keyed, 1, Len(keyed) - 1)))

\* s sorted by keys, keys[i] being the key of s[i]
StableSort(s, keys) ==
    LET keyed == [i \in 1..Len(s) |-> [item |-> s[i], key |-> keys[i]]]
        sorted == SortKeyed(keyed)
    IN  [i \in 1..Len(s) |-> sorted[i].item]

\* key=lambda node: node.last_modified with reverse=True: newest first, the
\* nodes of one date in their given order
NewestFirstKeys(nodes) ==
    [i \in 1..Len(nodes) |->
        << -nodes[i].last_modified[1].days, -nodes[i].last_modified[1].secs,
           -nodes[i].last_modified[1].us >>]

\* ChildrenAfterSort changed to sort the list it is given in place
ChildrenAfterSort_InPlace(nodes) ==
    LET with_dates == SelectSeq(nodes, HasDate)
        without_dates == SelectSeq(nodes, LAMBDA n : ~HasDate(n))
    IN  StableSort(with_dates, NewestFirstKeys(with_dates)) \o without_dates

\* _sort_by_last_modified, lines 260-268: the list passed in, as the call
\* leaves it; the sorted nodes go to two new lists and nodes keeps its order
ChildrenAfterSort(nodes) == nodes

\* the tree with the children list of node set to new; node is a node of
\* the tree, found as the first one equal to it in every field
RECURSIVE SetChildren(_, _, _)
SetChildren(root, node, new) ==
    IF root = node THEN [root EXCEPT !.children = new]
    ELSE [root EXCEPT !.children =
             [i \in 1..Len(root.children) |-> SetChildren(root.children[i], node, new)]]

\* _sort_by_last_modified changed to return the nodes in their given order
_sort_by_last_modified_Unsorted(nodes) == [nodes |-> nodes, raised |-> FALSE]

\* _sort_by_last_modified: [raised, nodes]
_sort_by_last_modified(nodes) ==
    LET with_dates == SelectSeq(nodes, HasDate)
        without_dates == SelectSeq(nodes, LAMBDA n : ~HasDate(n))
    IN  IF ~AllComparable(with_dates) THEN [nodes |-> << >>, raised |-> TRUE]
        ELSE [nodes |-> StableSort(with_dates, NewestFirstKeys(with_dates))
                            \o without_dates,
              raised |-> FALSE]

\* _is_denied_url
_is_denied_url(url) ==
    LET ending == Lower(Last(Split(url, ".")))
    IN  ~ \E i \in 1..Len(DENIED_EXTENSIONS) : EndsWith(ending, DENIED_EXTENSIONS[i])

\* local() of _datetimemodule.c: the local time of the instant u, both as
\* datetimes counted from the epoch: [raised, at].  zone is the local time
\* zone as time.localtime reads it: the offset from UTC before its first
\* transition, and the transitions <<days, seconds, utcoffset>>, the offset
\* in force from that instant on.  ValueError where the local time leaves
\* the years 1 to 9999.
local(zone, u) ==
    LET utcoffset(passed) == IF passed = 0 THEN zone.before
                             ELSE zone.transitions[passed][3]
        Local(at) ==
            [at |-> at,
             raised |-> at.days < 1 - EPOCH_ORDINAL \/ at.days > MAX_ORDINAL - EPOCH_ORDINAL]
    IN  Local(Datetime(u.days,
                       u.secs + utcoffset(Cardinality(
                           { i \in 1..Len(zone.transitions) :
                               ~After(Datetime(zone.transitions[i][1],
                                               zone.transitions[i][2], 0, FALSE), u) })),
                       0, FALSE))

\* local_to_seconds of _datetimemodule.c with fold = 0: the instant u of the
\* local time t, t = local(u): [raised, at].  t is tried with the offset a
\* in force at t read as an instant, then with the offset b of the day
\* before u1 = t - a where local(u1) is t, else with the offset b in force
\* at u1; a time that no instant has (a gap) gives the later of the two.
local_to_seconds(zone, t) ==
    LET Minus(x, seconds) == Datetime(x.days, x.secs - seconds, 0, FALSE)
        Between(x, y) == (x.days - y.days) * 86400 + x.secs - y.secs
        Raised == [at |-> t, raised |-> TRUE]
        Found(u) == [at |-> u, raised |-> FALSE]
        \* u2 = t - b; t2 = local(u2) and the lines after it
        Second(u1, t1, u2, t2) ==
            IF t2.raised THEN Raised
            ELSE IF t2.at = t THEN Found(u2)
            ELSE IF t1.at = t THEN Found(u1)
            ELSE IF After(u1, u2) THEN Found(u1) ELSE Found(u2)
        WithB(u1, t1, u2) == Second(u1, t1, u2, local(zone, u2))
        \* t1 == t: u2 = u1 - max_fold_seconds; b = local(u2) - u2
        DayBefore(a, u1, t1, u2, lt) ==
            IF lt.raised THEN Raised
            ELSE IF a = Between(lt.at, u2) THEN Found(u1)
            ELSE WithB(u1, t1, Minus(t, Between(lt.at, u2)))
        \* t1 = local(u1)
        First(a, u1, t1) ==
            IF t1.raised THEN Raised
            ELSE IF t1.at = t
            THEN DayBefore(a, u1, t1, Minus(u1, 86400), local(zone, Minus(u1, 86400)))
            ELSE WithB(u1, t1, Minus(t, Between(t1.at, u1)))
        WithA(a) == First(a, Minus(t, a), local(zone, Minus(t, a)))
        \* lt = local(t); a = lt - t; u1 = t - a
        Begin(lt) == IF lt.raised THEN Raised ELSE WithA(Between(lt.at, t))
    IN  Begin(local(zone, t))

\* PyFloat_FromDouble: the float of the seconds from the epoch to at, as a
\* datetime.  Less than 2^33 seconds from the epoch (the years 1698 to
\* 2242) the floats of two instants are in the order of the instants, and
\* the float is written as the instant.  From 2^33, 2^34, ..., 2^37 seconds
\* on a float holds 19, 18, ..., 15 bits of the fraction of the second: the
\* fraction is rounded to the nearest of these, and us is the count of
\* 2^-19, ..., 2^-15 seconds of it.
PyFloat_FromDouble(at) ==
    LET Rounded(bits, fraction) ==
            IF bits = 20 THEN at
            ELSE IF fraction = 2^bits THEN Datetime(at.days, at.secs + 1, 0, at.aware)
            ELSE [at EXCEPT !.us = fraction]
        Fraction(bits, unit) ==
            Rounded(bits, (at.us \div 15625) * unit
                              + ((2 * (at.us % 15625) * unit + 15625) \div 31250))
        Bits(bits) == Fraction(bits, 2^(bits - 6))
    IN  Bits(20 - Cardinality(
            { binade \in { <<99420, 46592>>, <<198841, 6784>>, <<397682, 13568>>,
                           <<795364, 27136>>, <<1590728, 54272>> } :
                \/ ~After(Datetime(binade[1], binade[2], 0, FALSE), at)
                \/ ~After(at, Datetime(0 - binade[1], 0 - binade[2], 0, FALSE)) }))

\* datetime.timestamp(), line 285, as a datetime: [raised, at].  An aware
\* datetime is its instant; a naive one is read as local time of zone, its
\* microseconds kept, and raises ValueError where the search for the
\* instant leaves the years 1 to 9999.
timestamp(dt, zone) ==
    LET Float(instant) ==
            [at |-> PyFloat_FromDouble([instant.at EXCEPT !.us = dt.us,
                                                          !.aware = dt.aware]),
             raised |-> instant.raised]
    IN  Float(IF dt.aware THEN [at |-> dt, raised |-> FALSE]
              ELSE local_to_seconds(zone, Datetime(dt.days, dt.secs, 0, FALSE)))

\* _get_node_sort_key: [raised, key]; the key is <<-100 * priority_score,
\* -date_score, 100 * depth_penalty>> with -date_score written as the three
\* numbers <<-days, -seconds, -microseconds>> of the timestamp
_get_node_sort_key(node, zone) ==
    LET priority_score == IF node.priority # None THEN node.priority[1] ELSE 50
        depth_penalty == Len(_get_path_segments(node.url))
        Key(stamp) ==
            [key |-> << -priority_score, -stamp.at.days, -stamp.at.secs, -stamp.at.us,
                        depth_penalty >>,
             raised |-> stamp.raised]
    IN  Key(IF node.last_modified # None
            THEN timestamp(node.last_modified[1], zone)
            ELSE [at |-> Datetime(0, 0, 0, FALSE), raised |-> FALSE])

\* key=_get_node_sort_key over a list
NodeSortKeys(nodes, zone) ==
    [i \in 1..Len(nodes) |-> _get_node_sort_key(nodes[i], zone).key]

\* list.sort(key=_get_node_sort_key) raises where a key does
SortRaises(nodes, zone) ==
    \E i \in 1..Len(nodes) : _get_node_sort_key(nodes[i], zone).raised

\* lines 312-313: whether node becomes a candidate, has_key_segment and
\* _is_denied_url
IsCandidate(node, key_segments) ==
    /\ LET segments == _get_path_segments(node.url)
       IN  \E i \in 1..Len(key_segments) : InSeq(key_segments[i], segments)
    /\ _is_denied_url(node.url)

\* next(..., None): the first item, None when there is none
FirstOrNone(hits) == IF hits = << >> THEN None ELSE Some(Head(hits))

\* found_key_segment changed to take the first segment of the path that is a
\* key segment
found_key_segment_ByPath(node, key_segments) ==
    FirstOrNone(SelectSeq(_get_path_segments(node.url),
                          LAMBDA g : InSeq(g, key_segments)))

\* lines 321-323: the first key segment found in the node's path, the
\* first of key_segments that is among the segments
found_key_segment(node, key_segments) ==
    LET FirstKeyIn(segments) ==
            FirstOrNone(SelectSeq(key_segments, LAMBDA k : InSeq(k, segments)))
    IN  FirstKeyIn(_get_path_segments(node.url))

-----------------------------------------------------------------------------
(* inputs *)

Page(url, priority, last_modified) ==
    [last_modified |-> last_modified, priority |-> priority, url |-> url]

\* datetime.fromisoformat(s), for the dates of the pages
Date(s) == [dt |-> FromIsoFormat(s).value, str |-> "", type |-> "datetime"]

Site == "https://example.com"

PagePool ==
    { Page("https://example.com/blog/a", Some(90), Date("2024-01-01")),
      Page("https://example.com/blog/b", Some(50), StrValue("2024-06-01")),
      Page("https://example.com/shop/x", None, NoneValue),
      Page("https://example.com/shop/doc.pdf", None, StrValue("not-a-date")),
      Page("https://example.com/", Some(100), Date("2024-06-01")),
      Page("https://example.com/blog", Some(50), StrValue("2024-03-01T00:00:00+00:00")) }

KeySegmentsPool ==
    { <<"blog", "shop">>, <<"shop", "blog">>, <<"shop">> }

MaxResultArgs == {0 - 1} \cup (0..MaxResultArg)

\* the local time zone of the process: UTC
UTC == [before |-> 0, transitions |-> << >>]

\* the local time zones of the process: UTC and Asia/Tokyo, which had local
\* mean time until 1887 and summer time in the years 1948 to 1951
LocalZones ==
    { UTC,
      [before |-> 33539,
       transitions |-> << <<0 - 29951, 54000, 32400>>, <<0 - 7915, 54000, 36000>>,
                          <<0 - 7782, 54000, 32400>>, <<0 - 7579, 54000, 36000>>,
                          <<0 - 7418, 54000, 32400>>, <<0 - 7180, 54000, 36000>>,
                          <<0 - 7054, 54000, 32400>>, <<0 - 6816, 54000, 36000>>,
                          <<0 - 6690, 54000, 32400>> >>] }

-----------------------------------------------------------------------------
(* state *)

VARIABLES
    tz,                       \* the local time zone of the process
    stage,                    \* the node of the importer graph that runs ("" when
                              \*   the functions are called without the graph)
    html,                     \* get_markups: the urls of the markups fetched so far
    pages,                    \* the sitemap pages inserted so far, in order
    tree,                     \* the root TreeNode
    pc,                       \* position: build, gather, sort, fill, children,
                              \*   fallback, return, done, raised; in the graph
                              \*   also invoke, root, extract, markups, end
    key_segments,             \* arguments of extract_key_pages
    max_result,
    key_pages,                \* set of URLs
    nodes_with_key_segments,  \* list of node nodes
    used_segments,            \* set of key segments
    cursor,                   \* index of the next node of the fill loop
    children,                 \* sorted children of the selected node
    result,                   \* the returned URLs (None before the return)
    error                     \* name of the exception raised ("" when none)

vars == << tz, stage, html, pages, tree, pc, key_segments, max_result, key_pages,
           nodes_with_key_segments, used_segments, cursor, children,
           result, error >>

selection == << key_segments, max_result, key_pages, nodes_with_key_segments,
                used_segments, cursor, children, result >>

\* build_site_tree, lines 238-239: the state before the first page, for a
\* homepage and a set of time zones; the homepage is an HttpUrl, a string
\* that HttpUrl refuses gives no tree
Start(homepages, zones) ==
    /\ tz \in zones
    /\ stage = ""
    /\ html = << >>
    /\ pages = << >>
    /\ \E url \in homepages : HttpUrl(url).ok /\ tree = RootNode(HttpUrl(url).url)
    /\ pc = "build"
    /\ key_segments = << >>
    /\ max_result = 0
    /\ key_pages = {}
    /\ nodes_with_key_segments = << >>
    /\ used_segments = {}
    /\ cursor = 1
    /\ children = << >>
    /\ result = None
    /\ error = ""

Init == Start({Site}, {UTC})

\* build_site_tree, lines 241-243: one iteration of the loop over the pages;
\* url, the base of the node URLs, is the url of the root (line 239).  Where
\* a node fails its validation the nodes appended before it stay in the tree
AddPage(page) ==
    /\ pc = "build"
    /\ Len(pages) < MaxPages
    /\ LET added == add_page_to_tree(tree.url, tree, page, parse_url_path(page.url), 0)
       IN  /\ tree' = added.root
           /\ IF added.raised
              THEN pc' = "raised" /\ error' = "ValidationError"
              ELSE UNCHANGED << pc, error >>
    /\ pages' = Append(pages, page)
    /\ UNCHANGED << tz, stage, html, selection >>

\* Seeds changed to seed the name of the root in place of its url
Seeds_RootName(root, last) ==
    {root.name} \cup (IF last.node # None THEN {last.node[1].url} ELSE {})

\* Seeds changed to leave the homepage out
Seeds_NoRoot(root, last) ==
    IF last.node # None THEN {last.node[1].url} ELSE {}

\* lines 300 and 304-306: the homepage and the last changed page
Seeds(root, last) ==
    {root.url} \cup (IF last.node # None THEN {last.node[1].url} ELSE {})

\* extract_key_pages, lines 300-306: the seeds; at is the position of the
\* call
ExtractStart(at, ks, mr) ==
    /\ pc = at
    /\ key_segments' = ks
    /\ max_result' = mr
    /\ nodes_with_key_segments' = << >>
    /\ used_segments' = {}
    /\ LET last == last_changed_node(tree)
       IN  IF last.raised
           THEN /\ pc' = "raised"
                /\ error' = "TypeError"
                /\ key_pages' = Seeds(tree, [node |-> None, raised |-> FALSE])
           ELSE /\ pc' = "gather"
                /\ error' = ""
                /\ key_pages' = Seeds(tree, last)
    /\ UNCHANGED << tz, stage, html, pages, tree, cursor, children, result >>

\* lines 307-314: the gathering loop; key_pages does not change in it, so
\* the test of line 308 stops it before the first node or never
Gather ==
    /\ pc = "gather"
    /\ nodes_with_key_segments' =
          IF Cardinality(key_pages) > max_result THEN << >>
          ELSE SelectSeq(iter_nodes(tree), LAMBDA n : IsCandidate(n, key_segments))
    /\ pc' = "sort"
    /\ UNCHANGED << tz, stage, html, pages, tree, key_segments, max_result, key_pages,
                    used_segments, cursor, children, result, error >>

\* line 315
Sort ==
    /\ pc = "sort"
    /\ IF SortRaises(nodes_with_key_segments, tz)
       THEN /\ pc' = "raised"
            /\ error' = "ValueError"
            /\ UNCHANGED << nodes_with_key_segments, cursor >>
       ELSE /\ nodes_with_key_segments' =
                  StableSort(nodes_with_key_segments,
                             NodeSortKeys(nodes_with_key_segments, tz))
            /\ cursor' = 1
            /\ pc' = "fill"
            /\ UNCHANGED error
    /\ UNCHANGED << tz, stage, html, pages, tree, key_segments, max_result, key_pages,
                    used_segments, children, result >>

\* IsUnused changed to take every node that has a key segment
IsUnused_Always(found, used) == found # None

\* line 324: the node has a key segment and the segment is not used yet
IsUnused(found, used) == found # None /\ found[1] \notin used

\* lines 316-329: one iteration of the fill loop, up to the loop over the
\* children
Fill ==
    /\ pc = "fill"
    /\ IF cursor > Len(nodes_with_key_segments) \/ Cardinality(key_pages) >= max_result
       THEN /\ pc' = "fallback"
            /\ UNCHANGED << key_pages, used_segments, cursor, children, error >>
       ELSE LET node == nodes_with_key_segments[cursor]
                found == found_key_segment(node, key_segments)
                sorted == _sort_by_last_modified(node.children)
            IN  IF IsUnused(found, used_segments)
                THEN /\ key_pages' = key_pages \cup {node.url}
                     /\ used_segments' = used_segments \cup {found[1]}
                     /\ cursor' = cursor + 1
                     /\ IF is_leaf(node)
                        THEN pc' = "fill" /\ UNCHANGED << children, error >>
                        ELSE IF sorted.raised
                        THEN pc' = "raised" /\ error' = "TypeError"
                             /\ UNCHANGED children
                        ELSE pc' = "children" /\ children' = sorted.nodes
                             /\ UNCHANGED error
                ELSE /\ cursor' = cursor + 1
                     /\ pc' = "fill"
                     /\ UNCHANGED << key_pages, used_segments, children, error >>
    /\ tree' = IF pc' = "children"
               THEN LET node == nodes_with_key_segments[cursor]
                    IN  SetChildren(tree, node, ChildrenAfterSort(node.children))
               ELSE tree
    /\ UNCHANGED << tz, stage, html, pages, key_segments, max_result,
                    nodes_with_key_segments, result >>

\* ChildAdmitted changed to test the budget with <=
ChildAdmitted_OffByOne(pages_so_far, limit, child) ==
    Cardinality(pages_so_far) <= limit /\ _is_denied_url(child.url)

\* line 331: whether a child of the selected node is added
ChildAdmitted(pages_so_far, limit, child) ==
    Cardinality(pages_so_far) < limit /\ _is_denied_url(child.url)

\* lines 330-332: one iteration of the loop over the children
AddChild ==
    /\ pc = "children"
    /\ IF children = << >>
       THEN pc' = "fill" /\ UNCHANGED << key_pages, children >>
       ELSE /\ key_pages' =
                  IF ChildAdmitted(key_pages, max_result, Head(children))
                  THEN key_pages \cup {Head(children).url}
                  ELSE key_pages
            /\ children' = Tail(children)
            /\ pc' = "children"
    /\ UNCHANGED << tz, stage, html, pages, tree, key_segments, max_result,
                    nodes_with_key_segments, used_segments, cursor, result, error >>

\* lines 334-337: the fallback fill
Fallback ==
    /\ pc = "fallback"
    /\ IF Cardinality(key_pages) < max_result /\ SortRaises(iter_leaves(tree), tz)
       THEN /\ pc' = "raised"
            /\ error' = "ValueError"
            /\ UNCHANGED key_pages
       ELSE /\ key_pages' =
                  IF Cardinality(key_pages) < max_result
                  THEN LET Take(s, n) == SubSeq(s, 1, IF n < Len(s) THEN n ELSE Len(s))
                           leaves == StableSort(iter_leaves(tree),
                                                NodeSortKeys(iter_leaves(tree), tz))
                           taken == Take(leaves, max_result - Cardinality(key_pages))
                       IN  key_pages \cup { taken[i].url : i \in 1..Len(taken) }
                  ELSE key_pages
            /\ pc' = "return"
            /\ UNCHANGED error
    /\ UNCHANGED << tz, stage, html, pages, tree, key_segments, max_result,
                    nodes_with_key_segments, used_segments, cursor, children,
                    result >>

\* line 338
Return ==
    /\ pc = "return"
    /\ result' = Some(key_pages)
    /\ pc' = "done"
    /\ UNCHANGED << tz, stage, html, pages, tree, key_segments, max_result, key_pages,
                    nodes_with_key_segments, used_segments, cursor, children,
                    error >>

Next ==
    \/ \E page \in PagePool : AddPage(page)
    \/ \E ks \in KeySegmentsPool, mr \in MaxResultArgs : ExtractStart("build", ks, mr)
    \/ Gather
    \/ Sort
    \/ Fill
    \/ AddChild
    \/ Fallback
    \/ Return

Spec == Init /\ [][Next]_vars

\* three pages whose URLs are not written as HttpUrl writes them: one with a
\* ".." segment; one with a "." segment, no scheme and a parameter; one with
\* upper-case letters, the port of https, a query and a fragment
RewrittenPool ==
    { Page("https://example.com/blog/..", Some(90), StrValue("2024-06-01T12:00:00")),
      Page("//example.com/shop/./a;v=1", None, StrValue("20240601")),
      Page("HTTPS://Example.COM:443/Shop/Doc.PDF?x=1#top", None,
           StrValue("0001-01-01")) }

\* The tree builder alone, over a wider choice of inputs: as homepage also a
\* URL with a path and a URL with a query; as sitemap pages the pages of
\* RewrittenPool, two pages of one directory and a page for the directory,
\* the homepage with and without its trailing slash, a page whose URL is no
\* absolute URL, and a page below the homepage with a path.
BuildPool ==
    RewrittenPool
        \cup { Page("https://example.com/blog/a", Some(90), Date("2024-01-01")),
               Page("https://example.com/blog/b", Some(50), StrValue("2024-06-01")),
               Page("https://example.com/blog", Some(50),
                    StrValue("2024-03-01T00:00:00+00:00")),
               Page("https://example.com/", Some(100), Date("2024-06-01")),
               Page(Site, Some(100), Date("2024-06-01")),
               Page("not-a-url", Some(50), NoneValue),
               Page("https://example.com/ru/blog", Some(50), NoneValue) }

InitBuild ==
    Start({Site, "https://example.com/ru/", "https://example.com/?lang=ru"}, {UTC})

NextBuild == \E page \in BuildPool : AddPage(page)

SpecBuild == InitBuild /\ [][NextBuild]_vars

\* The selector in two time zones, over pages whose dates are all naive
\* datetimes, one of them the epoch, 1970-01-01T00:00:00, with a page /shop/a
\* that ranks before its directory when another page created the directory,
\* and with a page /blog/shop whose path holds two key segments.
RankPool ==
    { Page("https://example.com/blog/shop", Some(90), Date("2024-01-01")),
      Page("https://example.com/blog/b", Some(50), Date("2024-06-01")),
      Page("https://example.com/shop/x", None, NoneValue),
      Page("https://example.com/shop/a", Some(90), Date("2024-06-01")),
      Page("https://example.com/shop/old", None, Date("1970-01-01")) }

InitRank == Start({Site}, LocalZones)

NextRank ==
    \/ \E page \in RankPool : AddPage(page)
    \/ \E ks \in KeySegmentsPool, mr \in MaxResultArgs : ExtractStart("build", ks, mr)
    \/ Gather
    \/ Sort
    \/ Fill
    \/ AddChild
    \/ Fallback
    \/ Return

SpecRank == InitRank /\ [][NextRank]_vars

\* The builder and the selector over URLs that are not written as HttpUrl
\* writes them, for a homepage with and without a query and for two strings
\* that are no HttpUrl and so are no homepage, in two time zones:
\* the pages with dot segments and upper-case letters of the builder, and a
\* page /blog/first.
EdgePool ==
    RewrittenPool
        \cup { Page("https://example.com/blog/first", Some(50), Date("2024-01-01")) }

InitEdge ==
    Start({Site, "https://example.com/?lang=ru", "ftp://example.com", "example.com"},
          LocalZones)

NextEdge ==
    \/ \E page \in EdgePool : AddPage(page)
    \/ \E ks \in KeySegmentsPool, mr \in MaxResultArgs : ExtractStart("build", ks, mr)
    \/ Gather
    \/ Sort
    \/ Fill
    \/ AddChild
    \/ Fallback
    \/ Return

SpecEdge == InitEdge /\ [][NextEdge]_vars

-----------------------------------------------------------------------------
(* importer_agent.py: the pipeline get_site_map, get_site_pages, get_markups *)

\* Edge changed to lead from get_markups back to get_site_map
Edge_Back(node) ==
    CASE node = "START" -> "get_site_map"
      [] node = "get_site_map" -> "get_site_pages"
      [] node = "get_site_pages" -> "get_markups"
      [] node = "get_markups" -> "get_site_map"

\* builder.add_edge, lines 68-71: the node that follows node
Edge(node) ==
    CASE node = "START" -> "get_site_map"
      [] node = "get_site_map" -> "get_site_pages"
      [] node = "get_site_pages" -> "get_markups"
      [] node = "get_markups" -> "END"

\* builder.add_node, lines 64-66: the position at which the function of a
\* node starts
EntryOf(node) ==
    CASE node = "get_site_map" -> "root"
      [] node = "get_site_pages" -> "extract"
      [] node = "get_markups" -> "markups"
      [] node = "END" -> "end"

\* agent_importer.ainvoke(state): the graph at START, state holding the url
\* and max_result, without a site_map (written as the node of no name and
\* no url) and without pages; html is the list of line 54, empty before
\* the loop
InitPipeline ==
    /\ tz = UTC
    /\ stage = "START"
    /\ html = << >>
    /\ pages = << >>
    /\ tree = RootNode("")
    /\ pc = "invoke"
    /\ key_segments = << >>
    /\ max_result \in MaxResultArgs
    /\ key_pages = {}
    /\ nodes_with_key_segments = << >>
    /\ used_segments = {}
    /\ cursor = 1
    /\ children = << >>
    /\ result = None
    /\ error = ""

\* the compiled graph, lines 68-73: the function of the node has returned,
\* get_site_map after the loop over the pages of the sitemap, get_site_pages
\* with the pages, get_markups after the markups of every page; the graph
\* moves on along the edge of the node and starts the next function
NodeReturns ==
    /\ CASE stage = "START" -> pc = "invoke"
         [] stage = "get_site_map" -> pc = "build"
         [] stage = "get_site_pages" -> pc = "done"
         [] stage = "get_markups" ->
                pc = "markups" /\ Len(html) = Cardinality(result[1])
         [] OTHER -> FALSE
    /\ stage' = Edge(stage)
    /\ pc' = EntryOf(Edge(stage))
    /\ UNCHANGED << tz, html, pages, tree, selection, error >>

\* get_site_map, line 39, up to the loop of build_site_tree: HttpUrl of
\* state["url"] and the root of the tree; ValidationError where HttpUrl
\* refuses the url, and the exception leaves the graph
GetSiteMap(url) ==
    /\ pc = "root"
    /\ IF HttpUrl(url).ok
       THEN tree' = RootNode(HttpUrl(url).url) /\ pc' = "build" /\ UNCHANGED error
       ELSE pc' = "raised" /\ error' = "ValidationError" /\ UNCHANGED tree
    /\ pages' = << >>
    /\ UNCHANGED << tz, stage, html, selection >>

\* get_site_map, line 39: build_site_tree raises (the sitemap cannot be
\* fetched); the exception leaves the graph
BuildFails ==
    /\ pc = "build"
    /\ pc' = "raised"
    /\ error' = "BuildError"
    /\ UNCHANGED << tz, stage, html, pages, tree, selection >>

\* get_markups, lines 56-59: one iteration of the loop over state["pages"],
\* the list of the set key_pages, whose order is any; the markups of the
\* page are fetched and appended to html and to markdown
GetMarkup ==
    /\ pc = "markups"
    /\ \E url \in result[1] : ~InSeq(url, html) /\ html' = Append(html, url)
    /\ UNCHANGED << tz, stage, pages, tree, pc, selection, error >>

\* get_markups, line 57: get_site_markups raises (the browser does not
\* start, the page cannot be read); nothing catches the exception and it
\* leaves the graph
MarkupFails ==
    /\ pc = "markups"
    /\ Len(html) < Cardinality(result[1])
    /\ pc' = "raised"
    /\ error' = "MarkupError"
    /\ UNCHANGED << tz, stage, html, pages, tree, selection >>

NextPipeline ==
    \/ NodeReturns
    \/ \E url \in {Site, "example.com"} : GetSiteMap(url)
    \/ \E page \in PagePool : AddPage(page)
    \/ BuildFails
    \/ ExtractStart("extract", PRIORITY_KEYWORDS, max_result)
    \/ Gather
    \/ Sort
    \/ Fill
    \/ AddChild
    \/ Fallback
    \/ Return
    \/ GetMarkup
    \/ MarkupFails

SpecPipeline == InitPipeline /\ [][NextPipeline]_vars

-----------------------------------------------------------------------------
(* vocabulary of the properties *)

Max(a, b) == IF a >= b THEN a ELSE b

\* the url of the root for the homepage Site
HomepageUrl == HttpUrl(Site).url

AllNodes == iter_nodes(tree)

\* number of nodes of the tree whose url is u
NodesWithUrl(u) == Cardinality({ i \in 1..Len(AllNodes) : AllNodes[i].url = u })

\* the seeds of the current tree (the freshness seed found without error)
SeedSet == Seeds(tree, last_changed_node(tree))

\* the url has k among its path segments
Matches(url, k) == InSeq(k, _get_path_segments(url))

\* the url ends in one of the denylisted extensions
HasDeniedExtension(url) ==
    \E i \in 1..Len(DENIED_EXTENSIONS) : EndsWith(Lower(url), DENIED_EXTENSIONS[i])

\* a is a prefix of b
IsPrefix(a, b) == Len(a) <= Len(b) /\ SubSeq(b, 1, Len(a)) = a

\* the paths of the pages inserted, in their order
PagePaths == [i \in 1..Len(pages) |-> parse_url_path(pages[i].url)]

\* index in paths of the first one that starts with path, 0 if none
FirstOf(paths, path) ==
    LET hits == { i \in 1..Len(paths) : IsPrefix(path, paths[i]) }
    IN  IF hits = {} THEN 0 ELSE CHOOSE i \in hits : \A j \in hits : i <= j

\* index in pages of the first page whose path starts with path, 0 if none
FirstWithPrefix(path) == FirstOf(PagePaths, path)

Returned == result # None

\* the pages of the worked example of the selector
ExampleA == Page("https://example.com/blog/a", Some(90), Date("2024-01-01"))
ExampleB == Page("https://example.com/blog/b", Some(50), StrValue("2024-06-01"))
ExampleX == Page("https://example.com/shop/x", None, NoneValue)

-----------------------------------------------------------------------------
(* properties *)

\* C1: for every max_result >= 1 the returned URLs contain the URL of the
\* root node of the tree.
C1_RootInResult ==
    (Returned /\ max_result >= 1) => tree.url \in result[1]

\* C1 witness: a call with max_result = 1 on a tree with pages has returned.
C1_Witness ==
    /\ Returned /\ max_result = 1 /\ Len(tree.children) > 0
    /\ tree.url \in result[1]

\* C2: for max_result >= 1 the URL set never holds more than
\* max(max_result, 2) URLs, and whenever it holds more than max_result URLs
\* it is exactly the root URL and the freshness seed; this holds at every
\* point of the call, so nothing is added once max_result is reached.
C2_SoftBudget ==
    (pc # "build" /\ max_result >= 1) =>
        /\ Cardinality(key_pages) <= Max(max_result, 2)
        /\ Cardinality(key_pages) > max_result => key_pages = SeedSet
        /\ Returned => result[1] = key_pages

\* C2 witness: a call with max_result = 1 has returned two URLs.
C2_Witness ==
    Returned /\ max_result = 1 /\ Cardinality(result[1]) = 2

\* C3: for every max_result >= 1 the number of returned URLs is at most
\* max_result.
C3_HardBudget ==
    (Returned /\ max_result >= 1) => Cardinality(result[1]) <= max_result

\* C4: every returned URL is the URL of exactly one node of the tree (the
\* returned URLs are a set, so none occurs twice).
C4_ResultUrlsUnique ==
    Returned => \A u \in result[1] : NodesWithUrl(u) = 1

\* C5: with max_result >= 4, whenever the tree has candidates for two
\* distinct keyword segments, the result holds a node matching each of them.
HasCandidateFor(k) ==
    \E i \in 1..Len(AllNodes) :
        IsCandidate(AllNodes[i], key_segments) /\ Matches(AllNodes[i].url, k)

C5_Diversity ==
    (Returned /\ max_result >= 4) =>
        \A i, j \in 1..Len(key_segments) :
            ( /\ key_segments[i] # key_segments[j]
              /\ HasCandidateFor(key_segments[i])
              /\ HasCandidateFor(key_segments[j]) )
            => /\ \E u \in result[1] : Matches(u, key_segments[i])
               /\ \E u \in result[1] : Matches(u, key_segments[j])

\* C6: for the pages /blog/a, /blog/b, /shop/x of the worked example, the
\* key segments blog and shop and max_result = 4, the result holds the
\* homepage, /blog/b, a blog entry and /shop/x.
C6_WorkedExample ==
    ( /\ Returned
      /\ pages = <<ExampleA, ExampleB, ExampleX>>
      /\ key_segments = << "blog", "shop" >>
      /\ max_result = 4 )
    => /\ HomepageUrl \in result[1]
       /\ ExampleB.url \in result[1]
       /\ \E u \in result[1] : Matches(u, "blog")
       /\ ExampleX.url \in result[1]

\* C7: a node whose URL ends in a denylisted extension is never in the
\* candidate list and is never added as a child of a selected candidate:
\* before the fallback fill every such URL of the set is a seed.
C7_DenylistFilters ==
    /\ \A i \in 1..Len(nodes_with_key_segments) :
          ~HasDeniedExtension(nodes_with_key_segments[i].url)
    /\ pc \in {"fill", "children"} =>
          \A u \in key_pages \ SeedSet : ~HasDeniedExtension(u)

\* C8: a call with max_result < 1 ends in an InvalidArgument error and
\* returns no URL list.
C8_InvalidArgument ==
    (pc # "build" /\ max_result < 1) =>
        (pc = "raised" /\ error = "InvalidArgument" /\ result = None)

\* C9: the call never raises, whatever the metadata of the nodes.
C9_NeverRaises ==
    pc # "raised" /\ error = ""

\* C10: a page whose last_modified is the string "not-a-date" does not fail
\* the build; every node it creates has no last_modified, is not the
\* freshness seed, has date score 0 and comes after every dated sibling
\* (stated of the tree while it is built and when the selection starts; the
\* selection does not change the tree).
CreatedByBadDate(paths, path) ==
    LET first == FirstOf(paths, path)
    IN  first # 0 /\ pages[first].last_modified = StrValue("not-a-date")

SortedAfterDated(siblings, node) ==
    LET sorted == _sort_by_last_modified(siblings).nodes
    IN  \A i, j \in 1..Len(sorted) :
            (sorted[i] = node /\ HasDate(sorted[j])) => j < i

\* the date score of the node is 0
DateScoreZero(node) ==
    LET score == _get_node_sort_key(node, tz)
    IN  ~score.raised /\ score.key[2] = 0 /\ score.key[3] = 0 /\ score.key[4] = 0

RECURSIVE TreatedAsUndated(_, _, _)
TreatedAsUndated(parent, names, paths) ==
    \A i \in 1..Len(parent.children) :
        LET node == parent.children[i]
            path == Append(names, node.name)
        IN  /\ CreatedByBadDate(paths, path) =>
                /\ node.last_modified = None
                /\ last_changed_node(tree).node # Some(node)
                /\ DateScoreZero(node)
                /\ ~_sort_by_last_modified(parent.children).raised
                      => SortedAfterDated(parent.children, node)
            /\ TreatedAsUndated(node, path, paths)

C10_BadDateIsUndated ==
    /\ error # "ValidationError"
    /\ pc \in {"build", "gather"} =>
          LET paths == PagePaths IN TreatedAsUndated(tree, << >>, paths)

\* C10 witness: the seeds of a call are chosen for a tree in which a node
\* created by the "not-a-date" page (its directory) has a dated sibling.
C10_Witness ==
    /\ pc = "gather"
    /\ \E a, b \in 1..Len(tree.children) :
          /\ CreatedByBadDate(PagePaths, <<tree.children[a].name>>)
          /\ HasDate(tree.children[b])

\* C11: a page whose URL is no well-formed absolute URL makes the build fail
\* with a ValidationError, and no node is created for it.
C11_MalformedUrlFails ==
    \A i \in 1..Len(pages) :
        ~HttpUrl(pages[i].url).ok =>
            /\ pc = "raised" /\ error = "ValidationError"
            /\ \A n \in 1..Len(AllNodes) :
                  AllNodes[n].name \notin
                      { parse_url_path(pages[i].url)[d] :
                            d \in 1..Len(parse_url_path(pages[i].url)) }

\* C12: for a tree that is the root alone and max_result >= 1 the call returns
\* exactly the root URL.
C12_RootOnlyTree ==
    (Returned /\ max_result >= 1 /\ tree.children = << >>) =>
        result[1] = {tree.url}

\* C12 witness: a call with max_result >= 2 has returned for a tree that is
\* still the root alone after the homepage page was inserted.
C12_Witness ==
    /\ Returned /\ max_result >= 2 /\ tree.children = << >>
    /\ pages # << >>
    /\ result[1] = {HomepageUrl}

\* C14: after any sequence of insertions no node of the tree has two children
\* of the same name.
RECURSIVE SiblingNamesDiffer(_)
SiblingNamesDiffer(node) ==
    /\ \A i, j \in 1..Len(node.children) :
          i # j => node.children[i].name # node.children[j].name
    /\ \A i \in 1..Len(node.children) : SiblingNamesDiffer(node.children[i])

C14_UniqueSiblingNames == SiblingNamesDiffer(tree)

\* C14 witness: the same page was inserted twice and a directory has got two
\* children.
C14_Witness ==
    /\ \E i, j \in 1..Len(pages) : i < j /\ pages[i] = pages[j]
    /\ \E n \in 1..Len(AllNodes) :
          AllNodes[n].url # tree.url /\ Len(AllNodes[n].children) >= 2

\* C15: after any sequence of insertions no two distinct nodes of the tree,
\* the root included, have the same url.
C15_UniqueUrls ==
    \A i, j \in 1..Len(AllNodes) : i # j => AllNodes[i].url # AllNodes[j].url

\* C16: the url of every node below the root is the homepage URL without its
\* trailing slash, "/", and the names on the path from the root's child to the
\* node joined by "/"; its path segments are exactly these names.
RECURSIVE UrlsSpellPaths(_, _)
UrlsSpellPaths(node, names) ==
    \A i \in 1..Len(node.children) :
        LET child == node.children[i]
            path == Append(names, child.name)
        IN  /\ child.url = RStrip(tree.url, "/") \o "/" \o Join(path, "/")
            /\ _get_path_segments(child.url) = path
            /\ UrlsSpellPaths(child, path)

C16_UrlSpellsPath == UrlsSpellPaths(tree, << >>)

\* C17: extract_key_pages does not change the tree: once the build is over,
\* no step changes the root or any node below it, the order of the children
\* lists included.
C17_TreeUnchanged == [][pc # "build" => tree' = tree]_vars

\* C17 witness: the children of a candidate are being walked in an order
\* that differs from the order the tree stores them in.
C17_Witness ==
    /\ pc = "children"
    /\ Len(children) >= 2
    /\ Len(children) = Len(nodes_with_key_segments[cursor - 1].children)
    /\ children # nodes_with_key_segments[cursor - 1].children

\* C18: when the selection is over and holds fewer than max_result URLs,
\* every leaf of the tree is in the result.
C18_FallbackTakesEveryLeaf ==
    (Returned /\ max_result >= 1 /\ Cardinality(result[1]) < max_result) =>
        \A i \in 1..Len(iter_leaves(tree)) :
            iter_leaves(tree)[i].url \in result[1]

\* every node below node, whose path from the root is names, carries the
\* priority and the validated last_modified of the first page whose path
\* starts with the node's path
RECURSIVE CarriesFirstMetadata(_, _, _)
CarriesFirstMetadata(node, names, paths) ==
    \A i \in 1..Len(node.children) :
        LET child == node.children[i]
            path == Append(names, child.name)
            first == FirstOf(paths, path)
        IN  /\ first # 0
            /\ child.priority = pages[first].priority
            /\ child.last_modified = validate_last_modified(pages[first].last_modified)
            /\ CarriesFirstMetadata(child, path, paths)

\* C19: every node below the root carries the priority and last_modified of
\* the first page of the input whose path has the node's path as a prefix,
\* whatever pages were inserted after it.
C19_MetadataOfFirstPage ==
    LET paths == PagePaths IN CarriesFirstMetadata(tree, << >>, paths)

\* C19 witness: /blog was created by the page /blog/a, and the page /blog,
\* with another priority and date, was inserted after it.
C19_Witness ==
    \E i, j \in 1..Len(pages) :
        /\ i < j
        /\ pages[i] = ExampleA
        /\ parse_url_path(pages[j].url) = << "blog" >>
        /\ pages[j].priority # pages[i].priority
        /\ FirstWithPrefix(<< "blog" >>) = i

\* C20: the insertion of a page whose URL has a path of no segment (the
\* homepage, with or without the trailing slash) leaves the tree as it was.
C20_HomepageRecordSkipped ==
    [][(pages' # pages /\ AllIn(urlparse(Last(pages').url).path, "/"))
          => tree' = tree]_vars

\* C20 witness: the homepage without its trailing slash was the last page
\* inserted, into a tree that already had nodes.
C20_Witness ==
    /\ Len(pages) >= 2
    /\ Last(pages).url = Site
    /\ tree.children # << >>

\* the node is dated and no dated node of the tree is more recent
IsLatest(node) ==
    /\ HasDate(node)
    /\ \A i \in 1..Len(AllNodes) :
          HasDate(AllNodes[i]) =>
              ~After(AllNodes[i].last_modified[1], node.last_modified[1])

\* C21: when some node of the tree is dated, the returned URLs hold, for
\* every max_result, the URL of a dated node that no dated node is more
\* recent than; when no node is dated, the seeds are the root URL alone.
C21_FreshnessSeed ==
    /\ Returned =>
          ((\E i \in 1..Len(AllNodes) : HasDate(AllNodes[i])) =>
              \E i \in 1..Len(AllNodes) :
                  IsLatest(AllNodes[i]) /\ AllNodes[i].url \in result[1])
    /\ (pc = "gather" /\ \A i \in 1..Len(AllNodes) : ~HasDate(AllNodes[i])) =>
          key_pages = {tree.url}

\* C21 witness: a call with max_result = 0 has returned the URL of the most
\* recent node of a tree in which an older dated node comes first.
C21_Witness ==
    /\ Returned /\ max_result = 0
    /\ \E i, j \in 1..Len(AllNodes) :
          /\ i < j
          /\ HasDate(AllNodes[i]) /\ ~IsLatest(AllNodes[i])
          /\ IsLatest(AllNodes[j]) /\ AllNodes[j].url \in result[1]

\* priority of a node, an absent priority counting as 0.5
PriorityOf(node) == IF node.priority # None THEN node.priority[1] ELSE 50

\* a may stand before b in a ranked list: b is not ahead of a by priority,
\* then by date (a dated node ahead of every undated one), then by the
\* number of path segments
RanksNotAfter(a, b) ==
    LET depth_a == Len(_get_path_segments(a.url))
        depth_b == Len(_get_path_segments(b.url))
    IN  \/ PriorityOf(a) > PriorityOf(b)
        \/ /\ PriorityOf(a) = PriorityOf(b)
           /\ \/ HasDate(a) /\ ~HasDate(b)
              \/ HasDate(a) /\ HasDate(b)
                    /\ After(a.last_modified[1], b.last_modified[1])
              \/ HasDate(a) /\ HasDate(b)
                    /\ a.last_modified[1] = b.last_modified[1]
                    /\ depth_a <= depth_b
              \/ ~HasDate(a) /\ ~HasDate(b) /\ depth_a <= depth_b

Ranked(nodes) == \A i, j \in 1..Len(nodes) : i < j => RanksNotAfter(nodes[i], nodes[j])

\* C22: the sorted candidates and the sorted leaves of the fallback are in
\* lexicographic order: higher priority first (absent counting as 0.5), then
\* the more recently modified, an undated node after every dated one, then
\* the node with fewer path segments.
C22_RankingOrder ==
    /\ pc = "fill" => Ranked(nodes_with_key_segments)
    /\ pc = "fallback" =>
          Ranked(StableSort(iter_leaves(tree), NodeSortKeys(iter_leaves(tree), tz)))

\* the key segments as a set
KeySegmentSet == { key_segments[i] : i \in 1..Len(key_segments) }

\* C23: a step of the fill loop that adds a candidate marks the candidate's
\* key segment, which was not used before, and adds this candidate alone; a
\* step that marks a segment is taken for the first candidate, in ranked
\* order, of that segment; so the candidates added on their own match are
\* never more than the distinct key segments.
C23_SegmentUsedOnce ==
    [][(pc = "fill" /\ cursor' = cursor + 1) =>
          LET node == nodes_with_key_segments[cursor]
              found == found_key_segment(node, key_segments)
          IN  /\ key_pages' # key_pages =>
                    /\ found # None /\ found[1] \notin used_segments
                    /\ used_segments' = used_segments \cup {found[1]}
                    /\ key_pages' = key_pages \cup {node.url}
              /\ used_segments' # used_segments =>
                    /\ Cardinality(used_segments') = Cardinality(used_segments) + 1
                    /\ \A i \in 1..(cursor - 1) :
                          found_key_segment(nodes_with_key_segments[i], key_segments) # found
              /\ used_segments' \subseteq KeySegmentSet
              /\ Cardinality(used_segments') <= Cardinality(KeySegmentSet)]_vars

\* C23 witness: the fill loop has passed a candidate of a used segment
\* without adding it, while the budget was not met.
C23_Witness ==
    /\ pc = "fill"
    /\ Cardinality(key_pages) < max_result
    /\ \E i \in 1..(cursor - 1) :
          /\ i <= Len(nodes_with_key_segments)
          /\ nodes_with_key_segments[i].url \notin key_pages
          /\ found_key_segment(nodes_with_key_segments[i], key_segments)[1] \in used_segments

\* a is not older than b, an undated node being older than every dated one
NotOlder(a, b) ==
    \/ ~HasDate(b)
    \/ HasDate(a) /\ HasDate(b) /\ ~After(b.last_modified[1], a.last_modified[1])

\* the nodes of a list, as a set
NodeSet(nodes) == { nodes[i] : i \in 1..Len(nodes) }

\* C24: the expansion of a selected candidate walks all its children; the
\* child offered at each step is not older than any child still to come,
\* undated children coming last; a child is added exactly when the URL set
\* holds fewer than max_result URLs, and nothing else is added; so the
\* children added are the most recently modified ones the budget admits.
C24_ChildrenNewestFirst ==
    [][/\ (pc = "fill" /\ pc' = "children") =>
             /\ Len(children') = Len(nodes_with_key_segments[cursor].children)
             /\ NodeSet(children') = NodeSet(nodes_with_key_segments[cursor].children)
       /\ (pc = "children" /\ children # << >>) =>
             /\ \A i \in 2..Len(children) : NotOlder(Head(children), children[i])
             /\ children' = Tail(children)
             /\ key_pages' =
                   IF Cardinality(key_pages) < max_result
                   THEN key_pages \cup {Head(children).url}
                   ELSE key_pages]_vars

\* C24 witness: a candidate whose children are stored oldest first is being
\* expanded, a child not yet selected is still to be offered, and the budget
\* admits one more URL only.
C24_Witness ==
    /\ pc = "children"
    /\ Len(children) >= 2
    /\ children # nodes_with_key_segments[cursor - 1].children
    /\ HasDate(children[1]) /\ HasDate(children[2])
    /\ Cardinality(key_pages) = max_result - 1
    /\ \E i \in 1..Len(children) : children[i].url \notin key_pages

\* the key segments, by their index in key_segments, found in the node's path
KeyIndexesIn(node) ==
    LET segments == _get_path_segments(node.url)
    IN  { i \in 1..Len(key_segments) : InSeq(key_segments[i], segments) }

\* the key segment of the least of the indexes
LeastKey(indexes) == key_segments[CHOOSE i \in indexes : \A j \in indexes : i <= j]

\* the key segment attributed to a candidate: the one of the least index
Attributed(node) == LET indexes == KeyIndexesIn(node) IN LeastKey(indexes)

\* C26: the fill loop attributes to a candidate the first element of
\* key_segments found among its path segments: a step that marks a segment
\* marks this one, and a candidate whose attributed segment is used is
\* passed over, without expansion, whatever other key segments its path
\* holds.
C26_FirstKeySegmentAttributed ==
    [][(pc = "fill" /\ cursor' = cursor + 1) =>
          LET node == nodes_with_key_segments[cursor]
              indexes == KeyIndexesIn(node)
              attributed == LeastKey(indexes)
          IN  /\ indexes # {}
              /\ attributed \notin used_segments =>
                    /\ used_segments' = used_segments \cup {attributed}
                    /\ node.url \in key_pages'
              /\ attributed \in used_segments =>
                    /\ pc' = "fill"
                    /\ key_pages' = key_pages
                    /\ used_segments' = used_segments]_vars

\* C26 witness: the fill loop has just passed over a candidate whose path
\* holds two key segments, the attributed one used and the other one not.
C26_Witness ==
    /\ pc = "fill" /\ cursor > 1
    /\ Cardinality(key_pages) < max_result
    /\ LET node == nodes_with_key_segments[cursor - 1]
       IN  /\ Cardinality(KeyIndexesIn(node)) = 2
           /\ Attributed(node) \in used_segments
           /\ \E i \in KeyIndexesIn(node) : key_segments[i] \notin used_segments
           /\ node.url \notin key_pages

\* the paths, as lists of names from the root's child on, of the nodes below
\* a node whose own path is names, in pre-order
RECURSIVE PathsBelow(_, _)
RECURSIVE PathsOfForest(_, _)
PathsBelow(node, names) == PathsOfForest(node.children, names)
PathsOfForest(nodes, names) ==
    IF nodes = << >> THEN << >>
    ELSE <<Append(names, Head(nodes).name)>>
            \o PathsBelow(Head(nodes), Append(names, Head(nodes).name))
            \o PathsOfForest(Tail(nodes), names)

\* the non-empty prefixes of the paths of the pages inserted
PrefixesOf(path) == { SubSeq(path, 1, k) : k \in 1..Len(path) }

PagePrefixes ==
    UNION { LET path == parse_url_path(pages[i].url) IN PrefixesOf(path) :
                i \in 1..Len(pages) }

\* C27: the nodes below the root are one node for every distinct non-empty
\* prefix of the path of some page inserted, and no other node; so the set
\* of nodes depends on the set of the pages only, not on their order or on
\* duplicates.
C27_NodesArePrefixes ==
    LET paths == PathsBelow(tree, << >>)
        prefixes == PagePrefixes
    IN  /\ { paths[i] : i \in 1..Len(paths) } = prefixes
        /\ Len(paths) = Cardinality(prefixes)

\* C27 witness: a page was inserted twice, with a page between that shares
\* its first segment but not its path.
C27_Witness ==
    /\ Len(pages) = 3
    /\ pages[1] = pages[3]
    /\ Len(parse_url_path(pages[1].url)) = 2
    /\ Len(parse_url_path(pages[2].url)) = 2
    /\ parse_url_path(pages[2].url)[1] = parse_url_path(pages[1].url)[1]
    /\ parse_url_path(pages[2].url) # parse_url_path(pages[1].url)
    /\ Len(AllNodes) = 4

\* the tree has a node of this path
HasPath(path) ==
    \E i \in 1..Len(PathsBelow(tree, << >>)) : PathsBelow(tree, << >>)[i] = path

\* C25: the graph passes from node to node along START, get_site_map,
\* get_site_pages, get_markups, END only, so every node runs once and none
\* runs again; nothing runs after a failure or after the end; the tree and
\* the pages change only while get_site_map runs, the selection touches its
\* state only while get_site_pages runs and markups are fetched only while
\* get_markups runs; when get_site_pages starts the tree holds a node for
\* every page of the sitemap, and a run that has not left get_site_map,
\* failed or not, has selected nothing.
C25_StagesInOrder ==
    [][/\ pc \notin {"raised", "end"}
       /\ stage' # stage =>
              << stage, stage' >> \in { <<"START", "get_site_map">>,
                                       <<"get_site_map", "get_site_pages">>,
                                       <<"get_site_pages", "get_markups">>,
                                       <<"get_markups", "END">> }
       /\ (tree' # tree \/ pages' # pages) =>
              (stage = "get_site_map" /\ stage' = stage)
       /\ selection' # selection => (stage = "get_site_pages" /\ stage' = stage)
       /\ html' # html => (stage = "get_markups" /\ stage' = stage)
       /\ (stage' # stage /\ stage' = "get_site_pages") =>
              \A i \in 1..Len(pages) :
                  \/ parse_url_path(pages[i].url) = << >>
                  \/ HasPath(parse_url_path(pages[i].url))
       /\ stage' \in {"START", "get_site_map"} =>
              (key_pages' = {} /\ result' = None)]_vars

\* C25 witness: the graph has come to END with the pages selected from a
\* tree of two pages or more and with the markups of every selected page.
C25_Witness ==
    /\ stage = "END" /\ pc = "end"
    /\ Returned /\ Len(pages) >= 2 /\ Cardinality(result[1]) >= 2
    /\ Len(html) = Cardinality(result[1])

\* C28: the insertion of a page whose path is the path of a node of the
\* tree leaves the tree as it was, whatever the priority and last_modified
\* of the page.
C28_InsertionIdempotent ==
    [][(pages' # pages /\ HasPath(parse_url_path(Last(pages').url)))
          => tree' = tree]_vars

\* C28 witness: the last page inserted has the path of a node that an
\* earlier page created with another priority.
C28_Witness ==
    /\ Len(pages) >= 2
    /\ LET path == parse_url_path(Last(pages).url)
           first == FirstWithPrefix(path)
       IN  /\ path # << >>
           /\ first < Len(pages)
           /\ pages[first].priority # Last(pages).priority
           /\ pages[first].last_modified # Last(pages).last_modified

\* C29: the root has no priority and no last_modified, whatever pages were
\* inserted; the freshness seed is never the root, so a call on a tree with
\* a dated node returns at least two URLs, also for max_result = 1.
C29_RootUndated ==
    /\ tree.priority = None /\ tree.last_modified = None
    /\ pc = "gather" =>
          \A i \in 1..Len(AllNodes) :
              IsLatest(AllNodes[i]) => AllNodes[i].url # tree.url
    /\ (Returned /\ \E i \in 1..Len(AllNodes) : HasDate(AllNodes[i])) =>
          Cardinality(result[1]) >= 2

\* index in pre-order of the first node that no dated node is more recent than
FirstLatest ==
    CHOOSE i \in 1..Len(AllNodes) :
        IsLatest(AllNodes[i]) /\ \A j \in 1..(i - 1) : ~IsLatest(AllNodes[j])

\* C30: when the selection starts on a tree with dated nodes, the freshness
\* seed is the first node in pre-order among those of the greatest
\* last_modified: the seeds are the root URL and the URL of that node.
C30_SeedIsFirstLatest ==
    (pc = "gather" /\ \E i \in 1..Len(AllNodes) : HasDate(AllNodes[i])) =>
        key_pages = {tree.url, AllNodes[FirstLatest].url}

\* C30 witness: the most recent page, /blog/b, created its directory /blog;
\* both carry its date and the seed is /blog, not /blog/b.
C30_Witness ==
    /\ pc = "gather"
    /\ pages # << >> /\ pages[1] = ExampleB
    /\ key_pages = {tree.url, "https://example.com/blog"}
    /\ \E i \in 1..Len(AllNodes) :
          /\ AllNodes[i].url = "https://example.com/blog/b"
          /\ IsLatest(AllNodes[i])

====
